---- MODULE Spec2Model ----
(***************************************************************************)
(* Attendance decision pipeline of the biometric attendance backend:       *)
(* POST /check-in, POST /check-out, PUT /attendance/:id/approve and        *)
(* PUT /attendance/:id/reject over the attendance_records and audit_logs   *)
(* tables, with performAntiSpoofingChecks as the liveness aggregator.      *)
(*                                                                         *)
(* Every await of a handler is a scheduling point: a request is a slot     *)
(* with a position (pc); one action is the code between two awaits that    *)
(* touch the store or a model.  Scores and similarities are integers in    *)
(* hundredths (0.8 is 80); the weighted liveness score is in thousandths.  *)
(* Time is logical: the calendar day is `today`, and within the run the    *)
(* clock a handler reads with new Date() is the number of rows stored so   *)
(* far, so a submission that starts after a row was stored is stamped      *)
(* later than the submission that stored it.                               *)
(* `response` is the answer sent to a caller by the step just taken        *)
(* (NoResponse after a step that answers nobody).                          *)
(*                                                                         *)
(* Spec is the pipeline with one admin review; SpecEnrolled is one user    *)
(* submitting against a vault an admin deletes from; SpecReview is two     *)
(* overlapping admin reviews; SpecTemplates is the face template routes    *)
(* (register, delete, set primary) from an empty vault; SpecSpoof is       *)
(* performAntiSpoofingChecks on its own.  SpecAuth is login and refresh    *)
(* against a status change of the user; SpecBackend is every route that    *)
(* answers a caller or writes an audit row, one request at a time;         *)
(* SpecSchedules is a check-in against work schedules being created;       *)
(* SpecOffline is the mobile client's online submission, offline queue and *)
(* its sync; SpecCalls is the face service's compareFaces,                 *)
(* encryptFaceTemplate and decryptFaceTemplate and the comparison loop,    *)
(* called on given arguments.  SpecSuspension is a user submitting while   *)
(* an admin changes the user's status; SpecClient is the mobile client's   *)
(* axios instance with its 401 interceptor and the token refresh.          *)
(***************************************************************************)
EXTENDS Integers, Sequences, FiniteSets, TLC

\* ---------------------------------------------------------------- bounds
MaxRecords == 3
MaxReviews == 1
MaxDay == 2
MaxTemplates == 3
MaxTemplateOps == 4
MaxOverlappingReviews == 2
MaxAuthOps == 3
MaxOffline == 3
MaxLogged == 2
MaxSchedules == 2
MaxRequests == 3
MaxRefreshDepth == 3

\* ------------------------------------------------------ program constants
ConfidenceThreshold == 80
LivenessThreshold == 750
FaceConfidenceFilter == 70
DedupThreshold == 90

\* ------------------------------------------------------------ input sets
Users == {"u1"}
Admin == "admin"
Slots == {1, 2}
AdminSlots == {1, 2}
Sims == {0, 65, 80}
Scores == {50, 75, 95}
Distances == {1000, 1004}
Detections == {<<>>, <<60>>, <<95>>}

VARIABLES today, records, audit, emitted, templates,
          schedules, req, adm, tpl, response, spoofIn, spoofOut,
          users, auth, tokens, offlineRecords, sync, client, screen,
          callIn, callOut

vars == <<today, records, audit, emitted, templates,
          schedules, req, adm, tpl, response, spoofIn, spoofOut,
          users, auth, tokens, offlineRecords, sync, client, screen,
          callIn, callOut>>

\* the users table with the authentication requests, the mobile client's
\* store, and the arguments and result of a service call
authVars == <<users, auth, tokens>>
mobileVars == <<offlineRecords, sync, client, screen>>
callVars == <<callIn, callOut>>
apart == <<authVars, mobileVars, callVars>>

store == <<records, audit, emitted, templates, schedules>>

\* ------------------------------------------------------------- the store
NoReason == [kind |-> "null", dist |-> 0, radius |-> 0, text |-> ""]

\* Math.round of a distance given in decimetres, in metres
Round(d) == (d + 5) \div 10

\* `You are ${Math.round(distance)}m away ... Allowed radius: ${location_radius}m`
LocationMessage(d, rad) ==
  [kind |-> "location", dist |-> Round(d), radius |-> rad, text |-> ""]
AdminReason(t) == [kind |-> "admin", dist |-> 0, radius |-> 0, text |-> t]

RecIds == 1..Len(records)

\* the duplicate query with a day window that ends before today
ApprovedToday_Yesterday(u, type, day) ==
  {i \in RecIds : /\ records[i].user_id = u
                  /\ records[i].type = type
                  /\ records[i].day < day
                  /\ records[i].status = "approved"}

\* the duplicate query without its status filter
ApprovedToday_AnyStatus(u, type, day) ==
  {i \in RecIds : /\ records[i].user_id = u
                  /\ records[i].type = type
                  /\ records[i].day = day}

\* the duplicate query without its whereBetween on the timestamp
ApprovedToday_AnyDay(u, type, day) ==
  {i \in RecIds : /\ records[i].user_id = u
                  /\ records[i].type = type
                  /\ records[i].status = "approved"}

\* the query of both duplicate checks: user, type, day window, status approved
ApprovedToday(u, type, day) ==
  {i \in RecIds : /\ records[i].user_id = u
                  /\ records[i].type = type
                  /\ records[i].day = day
                  /\ records[i].status = "approved"}

\* ------------------------------------------- performAntiSpoofingChecks
\* lv is the answer of detectLiveness: [isLive, confidence], or an error;
\* tx = [isRealTexture, textureScore], dp = [hasDepth, depthScore].
\* Scores are hundredths, overallScore is thousandths.
LivenessError == [isLive |-> FALSE, confidence |-> 0, error |-> TRUE]
LivenessResults == [isLive : BOOLEAN, confidence : Scores, error : {FALSE}]
TextureResults == [isRealTexture : BOOLEAN, textureScore : Scores]
DepthResults == [hasDepth : BOOLEAN, depthScore : Scores]

OverallScore(lv, tx, dp) ==
  lv.confidence * 4 + tx.textureScore * 3 + dp.depthScore * 3

\* the aggregator answering "passed" when detectLiveness threw
PerformAntiSpoofingChecks_FailOpen(lv, tx, dp) ==
  IF lv.error
    THEN [overallScore |-> 0, isLive |-> TRUE, passed |-> TRUE, threw |-> FALSE]
    ELSE LET overallScore == OverallScore(lv, tx, dp)
             isLive == /\ overallScore > LivenessThreshold
                       /\ lv.isLive
                       /\ tx.isRealTexture
                       /\ dp.hasDepth
         IN [overallScore |-> overallScore, isLive |-> isLive, passed |-> isLive,
             threw |-> FALSE]

\* the aggregator deciding on the weighted score alone
PerformAntiSpoofingChecks_ScoreOnly(lv, tx, dp) ==
  IF lv.error
    THEN [overallScore |-> 0, isLive |-> FALSE, passed |-> FALSE, threw |-> TRUE]
    ELSE LET overallScore == OverallScore(lv, tx, dp)
             isLive == overallScore > LivenessThreshold
         IN [overallScore |-> overallScore, isLive |-> isLive, passed |-> isLive,
             threw |-> FALSE]

\* threw: the catch block rethrows what detectLiveness threw
PerformAntiSpoofingChecks(lv, tx, dp) ==
  IF lv.error
    THEN [overallScore |-> 0, isLive |-> FALSE, passed |-> FALSE, threw |-> TRUE]
    ELSE LET overallScore == OverallScore(lv, tx, dp)
             isLive == /\ overallScore > LivenessThreshold
                       /\ lv.isLive
                       /\ tx.isRealTexture
                       /\ dp.hasDepth
         IN [overallScore |-> overallScore, isLive |-> isLive, passed |-> isLive,
             threw |-> FALSE]

\* ------------------------------------------------------------- requests
IdleReq == [pc |-> "idle", type |-> "none", user |-> "none", day |-> 0, ts |-> 0,
            liveCall |-> "none", passed |-> FALSE, best |-> 0, status |-> "none",
            reason |-> NoReason, distance |-> 0, recId |-> 0, steps |-> <<>>]

IdleAdm == [pc |-> "idle", kind |-> "none", id |-> 0, old |-> "none", reason |-> ""]

\* ------------------------------------------------------------- payloads
\* the keys of the data object of an answer and of old_values and new_values
\* of an audit row, per operation; the columns of face_templates
TemplateColumns ==
  {"id", "user_id", "face_encoding", "face_hash", "quality_score", "is_primary",
   "created_at", "updated_at"}

\* a listing that answers with the rows as a query without select returns them
Listed_AllColumns == TemplateColumns

\* GET /templates/:userId: the columns selected and mapped into the answer
Listed == {"id", "quality_score", "is_primary", "created_at", "updated_at"}

\* data.attendanceRecord of a stored check-in or check-out
AttendanceData(type, outcome) ==
  IF outcome # "Accepted" THEN {}
  ELSE IF type = "check_in"
    THEN {"id", "type", "timestamp", "status", "confidenceScore", "livenessPassed",
          "locationValid", "locationMessage"}
    ELSE {"id", "type", "timestamp", "status", "confidenceScore", "livenessPassed"}

\* data of the answers of the face recognition routes
TemplateData(kind, outcome) ==
  IF outcome = "Registered"
    THEN {"id", "userId", "qualityScore", "isPrimary", "createdAt"}
  ELSE IF outcome = "Listed" THEN Listed
  ELSE IF kind = "verify" /\ outcome \in {"Verified", "NotVerified"}
    THEN {"verified", "similarity", "threshold", "livenessPassed", "bestMatch"}
  ELSE {}

\* old_values and new_values of the audit rows
Logged(action) ==
  IF action = "attendance_check_in"
    THEN {"timestamp", "latitude", "longitude", "confidence_score", "liveness_passed"}
  ELSE IF action = "attendance_check_out"
    THEN {"timestamp", "latitude", "longitude", "confidence_score"}
  ELSE IF action \in {"attendance_approved", "attendance_rejected"}
    THEN {"status", "reason"}
  ELSE IF action \in {"face_template_registered", "face_template_deleted"}
    THEN {"user_id", "quality_score", "is_primary"}
  ELSE IF action = "face_template_set_primary" THEN {"user_id", "is_primary"}
  ELSE IF action = "face_verification"
    THEN {"similarity", "threshold", "verified", "liveness_passed"}
  ELSE IF action = "user_status_changed" THEN {"status", "reason"}
  ELSE IF action = "user_updated"
    THEN {"first_name", "last_name", "department", "position", "phone", "updated_at"}
  ELSE IF action = "work_schedule_created"
    THEN {"user_id", "schedule_name", "start_time", "end_time"}
  ELSE {}

NoResponse == [to |-> "none", slot |-> 0, type |-> "none", user |-> "none",
               outcome |-> "none",
               steps |-> <<>>, recId |-> 0, liveCall |-> "none", similarity |-> 0,
               enrolledBest |-> 0, isPrimary |-> FALSE, data |-> {},
               valid |-> FALSE, code |-> 0, tokens |-> "none"]

\* a step that answers nobody
Quiet == response' = NoResponse

\* res.status(...).json(...) of a request whose locals are q: the handler
\* returns and its slot is free again
Answer(r, q, outcome, step) ==
  /\ response' = [to |-> "user", slot |-> r, type |-> q.type, user |-> q.user,
                  outcome |-> outcome,
                  steps |-> Append(q.steps, step), recId |-> q.recId,
                  liveCall |-> q.liveCall, similarity |-> q.best,
                  enrolledBest |-> 0, isPrimary |-> FALSE,
                  data |-> AttendanceData(q.type, outcome),
                  valid |-> FALSE, code |-> 0, tokens |-> "none"]
  /\ req' = [req EXCEPT ![r] = IdleReq]

Respond(r, outcome, step) == Answer(r, req[r], outcome, step)

Advance(r, pc, step) ==
  /\ req' = [req EXCEPT ![r].pc = pc, ![r].steps = Append(@, step)]
  /\ Quiet

\* new Date() at the start of a handler
Clock == Len(records)

\* submissions are admitted while the rows stored and the requests under way
\* leave room in the table
Admit ==
  Len(records) + Cardinality({s \in Slots : req[s].pc # "idle"}) < MaxRecords

\* a new request runs in the lowest free slot
FreeSlot(r) ==
  /\ req[r].pc = "idle"
  /\ \A s \in Slots : s < r => req[s].pc # "idle"

\* ------------------------------------------------------- pipeline helpers
\* detectFaces keeps the detections above the confidence filter
ValidFaces(faces) == SelectSeq(faces, LAMBDA c : c > FaceConfidenceFilter)

\* the rows of face_templates of a user (a deleted row stays in the sequence
\* as a row that is not live, so that an id is never given twice)
ExistingTemplates(u) ==
  SelectSeq(templates, LAMBDA t : t.live /\ t.user_id = u)

\* the template query of check-in and check-out
TemplatesFor(u) ==
  SelectSeq(templates, LAMBDA t : t.live /\ t.user_id = u /\ t.is_primary)

\* what compareFaces answers for the submitted face and each stored template
\* of the user: a similarity per template id
SimilaritiesTo(rows) ==
  [{rows[k].id : k \in 1..Len(rows)} -> Sims]

\* the greatest of a similarity map (0 when it is empty)
MaxOf(sim) ==
  IF DOMAIN sim = {} THEN 0
  ELSE CHOOSE m \in {sim[i] : i \in DOMAIN sim} : \A i \in DOMAIN sim : sim[i] <= m

\* the comparison loop: bestSimilarity starts at 0 and bestMatch at null (0);
\* a template replaces the best only when strictly more similar
RECURSIVE BestFrom(_, _, _, _)
BestFrom(sims, i, bestMatch, bestSimilarity) ==
  IF i > Len(sims)
    THEN [bestMatch |-> bestMatch, bestSimilarity |-> bestSimilarity]
    ELSE IF sims[i] > bestSimilarity
           THEN BestFrom(sims, i + 1, i, sims[i])
           ELSE BestFrom(sims, i + 1, bestMatch, bestSimilarity)

BestMatch(sims) == BestFrom(sims, 1, 0, 0)

\* the distance test with >= for >
LocationValid_Inclusive(ws, distance) ==
  IF ws # 0 /\ schedules[ws].hasCoords
    THEN ~(distance >= 10 * schedules[ws].location_radius)
    ELSE TRUE

\* the threshold test with <= for <
RecognitionFails_Inclusive(bestMatch, bestSimilarity) ==
  bestMatch = 0 \/ bestSimilarity <= ConfidenceThreshold

\* if (!bestMatch || bestSimilarity < confidenceThreshold) -> reject
RecognitionFails(bestMatch, bestSimilarity) ==
  bestMatch = 0 \/ bestSimilarity < ConfidenceThreshold

\* the work_schedules query: active, effective_from/to null (0) or around today
EffectiveSchedules(u, day) ==
  {i \in 1..Len(schedules) :
     /\ schedules[i].user_id = u
     /\ schedules[i].is_active
     /\ (schedules[i].effective_from = 0 \/ schedules[i].effective_from <= day)
     /\ (schedules[i].effective_to = 0 \/ schedules[i].effective_to >= day)}

\* .first() of the query: one of the effective rows, or none (0)
FirstSchedule(u, day) ==
  IF EffectiveSchedules(u, day) = {} THEN {0} ELSE EffectiveSchedules(u, day)

\* workSchedule && workSchedule.latitude && workSchedule.longitude
HasSite(ws) == ws # 0 /\ schedules[ws].hasCoords

\* the distances, in decimetres, a submitted position can have to the site
\* (0 where there is no site to measure to)
DistancesTo(ws) == IF HasSite(ws) THEN Distances ELSE {0}

\* locationValid of the check-in handler for a schedule row (0: no row) and a
\* distance in decimetres; location_radius is in metres
LocationValid(ws, distance) ==
  IF HasSite(ws)
    THEN ~(distance > 10 * schedules[ws].location_radius)
    ELSE TRUE

\* the insert without the status column, which the table fills with its
\* default 'pending'
NewRecord_DefaultStatus(r, distance) ==
  [id |-> Len(records) + 1, user_id |-> req[r].user, type |-> req[r].type,
   day |-> req[r].day, timestamp |-> req[r].ts,
   confidence_score |-> req[r].best, liveness_passed |-> req[r].passed,
   status |-> "pending", rejection_reason |-> req[r].reason,
   distance |-> distance,
   approved_by |-> "null", approved_at |-> 0]

\* the inserted row; distance stands for the stored latitude and longitude
NewRecord(r, distance) ==
  [id |-> Len(records) + 1, user_id |-> req[r].user, type |-> req[r].type,
   day |-> req[r].day, timestamp |-> req[r].ts,
   confidence_score |-> req[r].best, liveness_passed |-> req[r].passed,
   status |-> req[r].status, rejection_reason |-> req[r].reason,
   distance |-> distance,
   approved_by |-> "null", approved_at |-> 0]

\* an audit row that takes the place of the last one
AuditInsert_Overwrite(entry) ==
  IF audit = <<>> THEN <<entry>> ELSE [audit EXCEPT ![Len(audit)] = entry]

\* db('audit_logs').insert(entry)
AuditInsert(entry) == Append(audit, entry)

AuditEntry(actor, action, id, old, new) ==
  [user_id |-> actor, action |-> action, resource_id |-> id,
   old_status |-> old, new_status |-> new, values |-> Logged(action)]

\* validation and the file check of both handlers
BadInput(r, type, u, input) ==
  /\ input \in {"invalid", "nofile"}
  /\ response' = [NoResponse EXCEPT !.to = "user", !.slot = r, !.type = type, !.user = u,
                    !.outcome = IF input = "invalid" THEN "ValidationFailed"
                                ELSE "ImageRequired"]
  /\ UNCHANGED req

\* a middleware that verifies the token and does not look at the user's status
AuthenticateToken_TokenOnly(u) == u \in Users

\* authenticateToken, mounted before the attendance routes: the request
\* carries an access token issued to u, and only an active user passes
AuthenticateToken(u) == users[u] = "active"

\* the 401 of authenticateToken; the handler does not run
Unauthorized(r, type, u) ==
  /\ response' = [NoResponse EXCEPT !.to = "user", !.slot = r, !.type = type, !.user = u,
                    !.outcome = "Unauthorized", !.code = 401]
  /\ UNCHANGED req

Duplicate(r, type, u, outcome) ==
  /\ response' = [NoResponse EXCEPT !.to = "user", !.slot = r, !.type = type, !.user = u,
                    !.outcome = outcome, !.steps = <<"duplicate">>]
  /\ UNCHANGED req

Start(r, type, u) ==
  /\ req' = [req EXCEPT ![r] = [IdleReq EXCEPT !.pc = "detect", !.type = type, !.user = u,
                                               !.day = today, !.ts = Clock,
                                               !.steps = <<"duplicate">>]]
  /\ Quiet

\* ------------------------------------------------------- POST /check-in
\* the handler up to its first answer or its first await after the duplicate
\* check, whoever posted the submission
CheckInArrives(r, u) ==
  /\ FreeSlot(r)
  /\ Admit
  /\ \E input \in {"ok", "invalid", "nofile"} :
       IF ~AuthenticateToken(u) THEN Unauthorized(r, "check_in", u)
       ELSE IF input # "ok" THEN BadInput(r, "check_in", u, input)
       ELSE IF ApprovedToday(u, "check_in", today) # {}
         THEN Duplicate(r, "check_in", u, "AlreadyCheckedIn")
       ELSE Start(r, "check_in", u)
  /\ UNCHANGED <<today, store, adm, spoofIn, spoofOut, tpl, authVars, callVars>>

\* a submission posted while the mobile client's store stays as it is
CheckInBegin(r, u) ==
  /\ CheckInArrives(r, u)
  /\ UNCHANGED mobileVars

\* ------------------------------------------------------ POST /check-out
CheckOutArrives(r, u) ==
  /\ FreeSlot(r)
  /\ Admit
  /\ \E input \in {"ok", "invalid", "nofile"} :
       IF ~AuthenticateToken(u) THEN Unauthorized(r, "check_out", u)
       ELSE IF input # "ok" THEN BadInput(r, "check_out", u, input)
       ELSE IF ApprovedToday(u, "check_in", today) = {}
         THEN Duplicate(r, "check_out", u, "NoCheckInYet")
       ELSE IF ApprovedToday(u, "check_out", today) # {}
         THEN Duplicate(r, "check_out", u, "AlreadyCheckedOut")
       ELSE Start(r, "check_out", u)
  /\ UNCHANGED <<today, store, adm, spoofIn, spoofOut, tpl, authVars, callVars>>

CheckOutBegin(r, u) ==
  /\ CheckOutArrives(r, u)
  /\ UNCHANGED mobileVars


\* ------------------------------------- steps shared by the two handlers
\* faces = await detectFaces(imageBuffer); faces.length === 0 -> 400
DetectFaces(r) ==
  /\ req[r].pc = "detect"
  /\ \/ \E faces \in Detections :
          IF Len(ValidFaces(faces)) = 0
            THEN Respond(r, "NoFaceDetected", "detect")
            ELSE Advance(r, "liveness", "detect")
     \/ Respond(r, "ServerError", "detect")
  /\ UNCHANGED <<today, store, adm, spoofIn, spoofOut, tpl, apart>>

\* what the three sub-checks answer for the images submitted to the pipeline
Sample(lv, tx, dp) == [lv |-> lv, tx |-> tx, dp |-> dp]
SpoofSamples ==
  {Sample([isLive |-> TRUE, confidence |-> 95, error |-> FALSE],
          [isRealTexture |-> TRUE, textureScore |-> 95],
          [hasDepth |-> TRUE, depthScore |-> 95]),
   Sample([isLive |-> TRUE, confidence |-> 75, error |-> FALSE],
          [isRealTexture |-> TRUE, textureScore |-> 75],
          [hasDepth |-> TRUE, depthScore |-> 75]),
   Sample([isLive |-> TRUE, confidence |-> 95, error |-> FALSE],
          [isRealTexture |-> TRUE, textureScore |-> 95],
          [hasDepth |-> FALSE, depthScore |-> 95]),
   Sample(LivenessError,
          [isRealTexture |-> TRUE, textureScore |-> 95],
          [hasDepth |-> TRUE, depthScore |-> 95])}

\* the liveness step without the return of its failure branch
AntiSpoofing_NoReturn(r) ==
  /\ req[r].pc = "liveness"
  /\ \E s \in SpoofSamples :
       LET antiSpoofingResult == PerformAntiSpoofingChecks(s.lv, s.tx, s.dp)
           called == [req EXCEPT ![r].liveCall = IF s.lv.error THEN "error" ELSE "ok"]
       IN IF antiSpoofingResult.threw
            THEN Answer(r, called[r], "ServerError", "liveness")
            ELSE /\ req' = [called EXCEPT ![r].pc = "match",
                                          ![r].passed = antiSpoofingResult.passed,
                                          ![r].steps = Append(@, "liveness")]
                 /\ Quiet
  /\ UNCHANGED <<today, store, adm, spoofIn, spoofOut, tpl, apart>>

\* antiSpoofingResult = await performAntiSpoofingChecks(...); what it throws
\* lands in the handler's catch (500); !passed -> 400
AntiSpoofing(r) ==
  /\ req[r].pc = "liveness"
  /\ \E s \in SpoofSamples :
       LET antiSpoofingResult == PerformAntiSpoofingChecks(s.lv, s.tx, s.dp)
           called == [req EXCEPT ![r].liveCall = IF s.lv.error THEN "error" ELSE "ok"]
       IN IF antiSpoofingResult.threw
            THEN Answer(r, called[r], "ServerError", "liveness")
          ELSE IF ~antiSpoofingResult.passed
            THEN Answer(r, called[r], "LivenessFailed", "liveness")
          ELSE /\ req' = [called EXCEPT ![r].pc = "match",
                                        ![r].passed = antiSpoofingResult.passed,
                                        ![r].steps = Append(@, "liveness")]
               /\ Quiet
  /\ UNCHANGED <<today, store, adm, spoofIn, spoofOut, tpl, apart>>

\* extractFaceFeatures, the template query, the comparison loop and the threshold
MatchTemplates(r) ==
  /\ req[r].pc = "match"
  /\ LET faceTemplates == TemplatesFor(req[r].user) IN
     \/ /\ req[r].type = "check_in"
        /\ Len(faceTemplates) = 0
        /\ \E sim \in SimilaritiesTo(ExistingTemplates(req[r].user)) :
             response' = [to |-> "user", slot |-> r, type |-> req[r].type,
                          user |-> req[r].user, outcome |-> "NoTemplate",
                          steps |-> Append(req[r].steps, "match"),
                          recId |-> 0, liveCall |-> req[r].liveCall,
                          similarity |-> 0, enrolledBest |-> MaxOf(sim), isPrimary |-> FALSE,
                          data |-> {},
                          valid |-> FALSE, code |-> 0, tokens |-> "none"]
        /\ req' = [req EXCEPT ![r] = IdleReq]
     \/ /\ req[r].type = "check_out" \/ Len(faceTemplates) > 0
        /\ \E sim \in SimilaritiesTo(ExistingTemplates(req[r].user)) :
             LET sims == [k \in 1..Len(faceTemplates) |-> sim[faceTemplates[k].id]]
                 b == BestMatch(sims)
             IN
             IF RecognitionFails(b.bestMatch, b.bestSimilarity)
               THEN /\ response' = [to |-> "user", slot |-> r, type |-> req[r].type,
                                    user |-> req[r].user, outcome |-> "FaceNotRecognized",
                                    steps |-> Append(req[r].steps, "match"),
                                    recId |-> 0, liveCall |-> req[r].liveCall,
                                    similarity |-> b.bestSimilarity,
                                    enrolledBest |-> MaxOf(sim), isPrimary |-> FALSE,
                                    data |-> {}, valid |-> FALSE, code |-> 0,
                                    tokens |-> "none"]
                    /\ req' = [req EXCEPT ![r] = IdleReq]
               ELSE /\ req' = [req EXCEPT ![r].pc = IF req[r].type = "check_in"
                                                      THEN "geofence" ELSE "persist",
                                          ![r].best = b.bestSimilarity,
                                          ![r].status = "approved",
                                          ![r].steps = Append(@, "match")]
                    /\ Quiet
     \/ /\ Len(faceTemplates) > 0
        /\ Respond(r, "ServerError", "match")
  /\ UNCHANGED <<today, store, adm, spoofIn, spoofOut, tpl, apart>>

\* check-in only: the work schedule query (.first() of an unordered query)
\* and the distance test
Geofence(r) ==
  /\ req[r].pc = "geofence"
  /\ req[r].type = "check_in"
  /\ \E ws \in FirstSchedule(req[r].user, today) :
     \E distance \in DistancesTo(ws) :
       LET locationValid == LocationValid(ws, distance) IN
       req' = [req EXCEPT ![r].pc = "persist",
                          ![r].distance = distance,
                          ![r].status = IF locationValid THEN "approved" ELSE "flagged",
                          ![r].reason = IF locationValid THEN NoReason
                                        ELSE LocationMessage(distance, schedules[ws].location_radius),
                          ![r].steps = Append(@, "geofence")]
  /\ Quiet
  /\ UNCHANGED <<today, store, adm, spoofIn, spoofOut, tpl, apart>>

\* db('attendance_records').insert(...); a failing insert lands in the catch
InsertRecord(r) ==
  /\ req[r].pc = "persist"
  /\ \/ /\ \E ws \in FirstSchedule(req[r].user, today) :
           \E distance \in IF req[r].type = "check_in" THEN {req[r].distance}
                            ELSE DistancesTo(ws) :
             records' = Append(records, NewRecord(r, distance))
        /\ req' = [req EXCEPT ![r].pc = "audit", ![r].recId = Len(records) + 1,
                              ![r].steps = Append(@, "persist")]
        /\ Quiet
     \/ /\ Respond(r, "ServerError", "persist")
        /\ UNCHANGED records
  /\ UNCHANGED <<today, audit, emitted, templates, schedules, adm,
                 spoofIn, spoofOut, tpl, apart>>

\* the notification emitted before the audit row is written, so that it goes
\* out also when the insert fails
InsertAudit_EmitFirst(r) ==
  /\ req[r].pc = "audit"
  /\ emitted' = Append(emitted, [type |-> req[r].type, userId |-> req[r].user,
                                 status |-> req[r].status])
  /\ \/ /\ audit' = AuditInsert(AuditEntry(req[r].user,
                                   IF req[r].type = "check_in" THEN "attendance_check_in"
                                   ELSE "attendance_check_out",
                                   req[r].recId, "null", "null"))
        /\ Answer(r, [req[r] EXCEPT !.steps = Append(@, "audit")], "Accepted", "emit")
     \/ /\ Respond(r, "ServerError", "audit")
        /\ UNCHANGED audit
  /\ UNCHANGED <<today, records, templates, schedules, adm,
                 spoofIn, spoofOut, tpl, apart>>

\* db('audit_logs').insert(...), then without a further await
\* io.to('admin_room').emit('attendance_update', ...) and res.json({success: true});
\* a failing insert lands in the catch
InsertAudit(r) ==
  /\ req[r].pc = "audit"
  /\ \/ /\ audit' = AuditInsert(AuditEntry(req[r].user,
                                   IF req[r].type = "check_in" THEN "attendance_check_in"
                                   ELSE "attendance_check_out",
                                   req[r].recId, "null", "null"))
        /\ emitted' = Append(emitted, [type |-> req[r].type, userId |-> req[r].user,
                                       status |-> req[r].status])
        /\ Answer(r, [req[r] EXCEPT !.steps = Append(@, "audit")], "Accepted", "emit")
     \/ /\ Respond(r, "ServerError", "audit")
        /\ UNCHANGED <<audit, emitted>>
  /\ UNCHANGED <<today, records, templates, schedules, adm,
                 spoofIn, spoofOut, tpl, apart>>

\* ------------------------------------ PUT /attendance/:id/approve, /reject
\* the approve update without rejection_reason: null
ApproveUpdate_KeepsReason(rec, admin, at) ==
  [rec EXCEPT !.status = "approved", !.approved_by = admin, !.approved_at = at]

\* the new field values of the two updates
ApproveUpdate(rec, admin, at) ==
  [rec EXCEPT !.status = "approved", !.approved_by = admin, !.approved_at = at,
              !.rejection_reason = NoReason]

\* the reject update with confidence_score among the columns set
RejectUpdate_ClearsScore(rec, admin, at, reason) ==
  [rec EXCEPT !.status = "rejected", !.approved_by = admin, !.approved_at = at,
              !.rejection_reason = AdminReason(reason), !.confidence_score = 0]

RejectUpdate(rec, admin, at, reason) ==
  [rec EXCEPT !.status = "rejected", !.approved_by = admin, !.approved_at = at,
              !.rejection_reason = AdminReason(reason)]

AdminResponse(a, kind, id, outcome) ==
  [NoResponse EXCEPT !.to = "admin", !.slot = a, !.type = kind, !.recId = id,
                     !.outcome = outcome]

\* the reviews made or under way
Reviews ==
  Cardinality({i \in 1..Len(audit) : audit[i].user_id = Admin})
    + Cardinality({a \in AdminSlots : adm[a].pc # "idle"})

\* a new request runs in the lowest free slot
FreeAdm(a) ==
  /\ adm[a].pc = "idle"
  /\ \A b \in AdminSlots : b < a => adm[b].pc # "idle"

\* record = await db('attendance_records').where('id', id).first(); 404 when absent
ApproveBegin(a, id) ==
  /\ FreeAdm(a)
  /\ IF id \in RecIds
       THEN /\ adm' = [adm EXCEPT ![a] = [IdleAdm EXCEPT !.pc = "update", !.kind = "approve",
                                                          !.id = id, !.old = records[id].status]]
            /\ Quiet
       ELSE /\ response' = AdminResponse(a, "approve", id, "NotFound")
            /\ UNCHANGED adm
  /\ UNCHANGED <<today, store, req, spoofIn, spoofOut, tpl, apart>>

\* the reject handler without body('reason').notEmpty()
RejectBegin_NoValidation(a, id, reason) ==
  /\ FreeAdm(a)
  /\ IF id \in RecIds
       THEN /\ adm' = [adm EXCEPT ![a] = [IdleAdm EXCEPT !.pc = "update", !.kind = "reject",
                                                          !.id = id, !.reason = reason,
                                                          !.old = records[id].status]]
            /\ Quiet
       ELSE /\ response' = AdminResponse(a, "reject", id, "NotFound")
            /\ UNCHANGED adm
  /\ UNCHANGED <<today, store, req, spoofIn, spoofOut, tpl, apart>>

\* body('reason').notEmpty() first, then the same lookup
RejectBegin(a, id, reason) ==
  /\ FreeAdm(a)
  /\ IF reason = ""
       THEN /\ response' = AdminResponse(a, "reject", id, "ValidationFailed")
            /\ UNCHANGED adm
       ELSE IF id \in RecIds
         THEN /\ adm' = [adm EXCEPT ![a] = [IdleAdm EXCEPT !.pc = "update", !.kind = "reject",
                                                            !.id = id, !.reason = reason,
                                                            !.old = records[id].status]]
              /\ Quiet
         ELSE /\ response' = AdminResponse(a, "reject", id, "NotFound")
              /\ UNCHANGED adm
  /\ UNCHANGED <<today, store, req, spoofIn, spoofOut, tpl, apart>>

\* db('attendance_records').where('id', id).update({...})
ReviewUpdate(a) ==
  /\ adm[a].pc = "update"
  /\ records' = [records EXCEPT ![adm[a].id] =
                   IF adm[a].kind = "approve"
                     THEN ApproveUpdate(@, Admin, today)
                     ELSE RejectUpdate(@, Admin, today, adm[a].reason)]
  /\ adm' = [adm EXCEPT ![a].pc = "audit"]
  /\ Quiet
  /\ UNCHANGED <<today, audit, emitted, templates, schedules, req,
                 spoofIn, spoofOut, tpl, apart>>

\* db('audit_logs').insert({old_values: {status: record.status}, ...}); res.json
ReviewAudit(a) ==
  /\ adm[a].pc = "audit"
  /\ audit' = AuditInsert(AuditEntry(Admin,
                             IF adm[a].kind = "approve" THEN "attendance_approved"
                             ELSE "attendance_rejected",
                             adm[a].id, adm[a].old,
                             IF adm[a].kind = "approve" THEN "approved" ELSE "rejected"))
  /\ response' = AdminResponse(a, adm[a].kind, adm[a].id, "Ok")
  /\ adm' = [adm EXCEPT ![a] = IdleAdm]
  /\ UNCHANGED <<today, records, emitted, templates, schedules, req,
                 spoofIn, spoofOut, tpl, apart>>

\* midnight passes
NextDay ==
  /\ today < MaxDay
  /\ today' = today + 1
  /\ Quiet
  /\ UNCHANGED <<store, req, adm, spoofIn, spoofOut, tpl, apart>>

\* --------------------------------------------- face template requests
\* POST /register, DELETE /templates/:templateId and
\* PUT /templates/:templateId/primary of the face recognition routes
TplSlots == {1, 2}
EnrollSims == {50, 90, 95}

IdleTpl == [pc |-> "idle", kind |-> "none", user |-> "none", id |-> 0,
            isPrimary |-> FALSE, existing |-> 0, closest |-> 0]

\* a new request runs in the lowest free slot
FreeTpl(t) ==
  /\ tpl[t].pc = "idle"
  /\ \A b \in TplSlots : b < t => tpl[b].pc # "idle"

TplResponse(t, kind, u, id, outcome) ==
  [NoResponse EXCEPT !.to = "admin", !.slot = t, !.type = kind, !.user = u,
                     !.recId = id, !.outcome = outcome,
                     !.data = TemplateData(kind, outcome)]

TemplateActions ==
  {"face_template_registered", "face_template_deleted", "face_template_set_primary"}

\* the template requests made or under way
TemplateOps ==
  Cardinality({i \in 1..Len(audit) : audit[i].action \in TemplateActions})
    + Cardinality({t \in TplSlots : tpl[t].pc # "idle"})

\* the answers of /register that precede the template query: validation, the
\* file check, the user lookup, detection, quality, liveness
EarlyRejections ==
  {"ValidationFailed", "ImageRequired", "UserNotFound", "NoFaceDetected",
   "MultipleFaces", "LowQuality", "LivenessFailed"}

\* the duplicate test of /register with >= for >
TooSimilar_Inclusive(similarity) == similarity >= DedupThreshold

\* if (comparison.similarity > 0.9)
TooSimilar(similarity) == similarity > DedupThreshold

\* .where('user_id', userId).update({ is_primary: false })
UnsetPrimaries(u) ==
  [i \in 1..Len(templates) |->
     IF templates[i].live /\ templates[i].user_id = u
       THEN [templates[i] EXCEPT !.is_primary = FALSE]
       ELSE templates[i]]

\* /register up to the end of the duplicate loop
RegisterBegin(t, u, isPrimary) ==
  /\ FreeTpl(t)
  /\ \/ /\ \E outcome \in EarlyRejections :
             response' = TplResponse(t, "register", u, 0, outcome)
        /\ UNCHANGED tpl
     \/ LET existingTemplates == ExistingTemplates(u) IN
        \E sim \in [{existingTemplates[k].id : k \in 1..Len(existingTemplates)}
                      -> EnrollSims] :
          IF \E k \in 1..Len(existingTemplates) : TooSimilar(sim[existingTemplates[k].id])
            THEN /\ response' = [TplResponse(t, "register", u, 0, "SimilarTemplateExists")
                                   EXCEPT !.similarity = MaxOf(sim),
                                          !.isPrimary = isPrimary]
                 /\ UNCHANGED tpl
            ELSE /\ tpl' = [tpl EXCEPT ![t] =
                              [IdleTpl EXCEPT !.pc = IF isPrimary THEN "unset" ELSE "insert",
                                              !.kind = "register", !.user = u,
                                              !.isPrimary = isPrimary,
                                              !.existing = Len(existingTemplates),
                                              !.closest = MaxOf(sim)]]
                 /\ Quiet
  /\ UNCHANGED <<today, store, req, adm, spoofIn, spoofOut, apart>>

\* if (isPrimary) the update that clears is_primary of the user's rows
RegisterUnset(t) ==
  /\ tpl[t].pc = "unset"
  /\ tpl[t].kind = "register"
  /\ templates' = UnsetPrimaries(tpl[t].user)
  /\ tpl' = [tpl EXCEPT ![t].pc = "insert"]
  /\ Quiet
  /\ UNCHANGED <<today, records, audit, emitted, schedules, req, adm,
                 spoofIn, spoofOut, apart>>

\* the insert: is_primary: isPrimary || existingTemplates.length === 0
RegisterInsert(t) ==
  /\ tpl[t].pc = "insert"
  /\ templates' = Append(templates,
                     [id |-> Len(templates) + 1, user_id |-> tpl[t].user,
                      is_primary |-> (tpl[t].isPrimary \/ tpl[t].existing = 0),
                      live |-> TRUE])
  /\ tpl' = [tpl EXCEPT ![t].pc = "audit", ![t].id = Len(templates) + 1]
  /\ Quiet
  /\ UNCHANGED <<today, records, audit, emitted, schedules, req, adm,
                 spoofIn, spoofOut, apart>>

RegisterAudit(t) ==
  /\ tpl[t].pc = "audit"
  /\ tpl[t].kind = "register"
  /\ audit' = AuditInsert(AuditEntry(Admin, "face_template_registered", tpl[t].id,
                                       "null", "null"))
  /\ response' = TplResponse(t, "register", tpl[t].user, tpl[t].id, "Registered")
  /\ tpl' = [tpl EXCEPT ![t] = IdleTpl]
  /\ UNCHANGED <<today, records, emitted, templates, schedules, req, adm,
                 spoofIn, spoofOut, apart>>

\* DELETE /templates/:templateId: the lookup, 404 when the row is absent
DeleteBegin(t, id) ==
  /\ FreeTpl(t)
  /\ IF id \in 1..Len(templates) /\ templates[id].live
       THEN /\ tpl' = [tpl EXCEPT ![t] = [IdleTpl EXCEPT !.pc = "del", !.kind = "delete",
                                                          !.user = templates[id].user_id,
                                                          !.id = id]]
            /\ Quiet
       ELSE /\ response' = TplResponse(t, "delete", "none", id, "NotFound")
            /\ UNCHANGED tpl
  /\ UNCHANGED <<today, store, req, adm, spoofIn, spoofOut, apart>>

\* a deletion that makes the user's oldest remaining template primary when the
\* row deleted was the primary one
DeleteRow_Promotes(t) ==
  /\ tpl[t].pc = "del"
  /\ LET id == tpl[t].id
         rest == {i \in 1..Len(templates) :
                    /\ i # id /\ templates[i].live
                    /\ templates[i].user_id = templates[id].user_id}
         heir == CHOOSE i \in rest : \A j \in rest : i <= j
     IN templates' = IF templates[id].is_primary /\ rest # {}
                        THEN [templates EXCEPT ![id].live = FALSE,
                                               ![heir].is_primary = TRUE]
                        ELSE [templates EXCEPT ![id].live = FALSE]
  /\ tpl' = [tpl EXCEPT ![t].pc = "audit"]
  /\ Quiet
  /\ UNCHANGED <<today, records, audit, emitted, schedules, req, adm,
                 spoofIn, spoofOut, apart>>

\* db('face_templates').where('id', templateId).del()
DeleteRow(t) ==
  /\ tpl[t].pc = "del"
  /\ templates' = [templates EXCEPT ![tpl[t].id].live = FALSE]
  /\ tpl' = [tpl EXCEPT ![t].pc = "audit"]
  /\ Quiet
  /\ UNCHANGED <<today, records, audit, emitted, schedules, req, adm,
                 spoofIn, spoofOut, apart>>

DeleteAudit(t) ==
  /\ tpl[t].pc = "audit"
  /\ tpl[t].kind = "delete"
  /\ audit' = AuditInsert(AuditEntry(Admin, "face_template_deleted", tpl[t].id,
                                       "null", "null"))
  /\ response' = TplResponse(t, "delete", tpl[t].user, tpl[t].id, "Deleted")
  /\ tpl' = [tpl EXCEPT ![t] = IdleTpl]
  /\ UNCHANGED <<today, records, emitted, templates, schedules, req, adm,
                 spoofIn, spoofOut, apart>>

\* PUT /templates/:templateId/primary: the lookup, 404 when the row is absent
SetPrimaryBegin(t, id) ==
  /\ FreeTpl(t)
  /\ IF id \in 1..Len(templates) /\ templates[id].live
       THEN /\ tpl' = [tpl EXCEPT ![t] = [IdleTpl EXCEPT !.pc = "unset", !.kind = "primary",
                                                          !.user = templates[id].user_id,
                                                          !.id = id]]
            /\ Quiet
       ELSE /\ response' = TplResponse(t, "primary", "none", id, "NotFound")
            /\ UNCHANGED tpl
  /\ UNCHANGED <<today, store, req, adm, spoofIn, spoofOut, apart>>

\* .where('user_id', template.user_id).update({ is_primary: false })
SetPrimaryUnset(t) ==
  /\ tpl[t].pc = "unset"
  /\ tpl[t].kind = "primary"
  /\ templates' = UnsetPrimaries(tpl[t].user)
  /\ tpl' = [tpl EXCEPT ![t].pc = "set"]
  /\ Quiet
  /\ UNCHANGED <<today, records, audit, emitted, schedules, req, adm,
                 spoofIn, spoofOut, apart>>

\* .where('id', templateId).update({ is_primary: true }): no row when it was
\* deleted meanwhile
SetPrimarySet(t) ==
  /\ tpl[t].pc = "set"
  /\ templates' = IF templates[tpl[t].id].live
                     THEN [templates EXCEPT ![tpl[t].id].is_primary = TRUE]
                     ELSE templates
  /\ tpl' = [tpl EXCEPT ![t].pc = "audit"]
  /\ Quiet
  /\ UNCHANGED <<today, records, audit, emitted, schedules, req, adm,
                 spoofIn, spoofOut, apart>>

SetPrimaryAudit(t) ==
  /\ tpl[t].pc = "audit"
  /\ tpl[t].kind = "primary"
  /\ audit' = AuditInsert(AuditEntry(Admin, "face_template_set_primary", tpl[t].id,
                                       "null", "null"))
  /\ response' = TplResponse(t, "primary", tpl[t].user, tpl[t].id, "PrimarySet")
  /\ tpl' = [tpl EXCEPT ![t] = IdleTpl]
  /\ UNCHANGED <<today, records, emitted, templates, schedules, req, adm,
                 spoofIn, spoofOut, apart>>

\* GET /templates/:userId: the query and the answer
ListTemplates(t, u) ==
  /\ FreeTpl(t)
  /\ response' = TplResponse(t, "list", u, 0, "Listed")
  /\ UNCHANGED <<today, store, req, adm, tpl, spoofIn, spoofOut, apart>>

\* the answers of /verify that precede the template query: the file check,
\* detection, liveness
VerifyRejections == {"ImageRequired", "NoFaceDetected", "LivenessFailed", "ServerError"}

\* POST /verify up to the template query
VerifyBegin(t, u) ==
  /\ FreeTpl(t)
  /\ \/ /\ \E outcome \in VerifyRejections :
             response' = [TplResponse(t, "verify", u, 0, outcome) EXCEPT !.to = "user"]
        /\ UNCHANGED tpl
     \/ /\ tpl' = [tpl EXCEPT ![t] = [IdleTpl EXCEPT !.pc = "match", !.kind = "verify",
                                                    !.user = u]]
        /\ Quiet
  /\ UNCHANGED <<today, store, req, adm, spoofIn, spoofOut, apart>>

\* the template query of /verify (every row of the user), 400 when there is
\* none, and the comparison loop
VerifyMatch(t) ==
  /\ tpl[t].pc = "match"
  /\ LET faceTemplates == ExistingTemplates(tpl[t].user) IN
     IF Len(faceTemplates) = 0
       THEN /\ response' = [TplResponse(t, "verify", tpl[t].user, 0, "NoTemplate")
                              EXCEPT !.to = "user"]
            /\ tpl' = [tpl EXCEPT ![t] = IdleTpl]
       ELSE \E sim \in SimilaritiesTo(faceTemplates) :
              LET sims == [k \in 1..Len(faceTemplates) |-> sim[faceTemplates[k].id]]
                  b == BestMatch(sims)
              IN
              /\ tpl' = [tpl EXCEPT ![t].pc = "audit",
                                    ![t].existing = Len(faceTemplates),
                                    ![t].closest = b.bestSimilarity,
                                    ![t].id = IF b.bestMatch = 0 THEN 0
                                              ELSE faceTemplates[b.bestMatch].id,
                                    ![t].isPrimary = IF b.bestMatch = 0 THEN FALSE
                                                     ELSE faceTemplates[b.bestMatch].is_primary]
              /\ Quiet
  /\ UNCHANGED <<today, store, req, adm, spoofIn, spoofOut, apart>>

\* isVerified = bestMatch && bestSimilarity >= confidenceThreshold, the audit
\* row of the attempt, then res.json
VerifyAudit(t) ==
  /\ tpl[t].pc = "audit"
  /\ tpl[t].kind = "verify"
  /\ audit' = AuditInsert(AuditEntry(tpl[t].user, "face_verification", 0,
                                       "null", "null"))
  /\ response' = [TplResponse(t, "verify", tpl[t].user, tpl[t].id,
                              IF RecognitionFails(tpl[t].id, tpl[t].closest)
                                THEN "NotVerified" ELSE "Verified")
                    EXCEPT !.to = "user", !.similarity = tpl[t].closest,
                           !.isPrimary = tpl[t].isPrimary]
  /\ tpl' = [tpl EXCEPT ![t] = IdleTpl]
  /\ UNCHANGED <<today, records, emitted, templates, schedules, req, adm,
                 spoofIn, spoofOut, apart>>

\* ------------------------------------------ calls of the face service
\* compareFaces, encryptFaceTemplate and decryptFaceTemplate of the face
\* recognition service and the comparison loop of the routes, applied to
\* given arguments. A value is its JavaScript kind with its numbers; form
\* tells a value from its JSON text and from the hex ciphertext of that text.
Components == {0, 3, 4}
Features == [1..2 -> Components]
SignedSims == {-20, 0, 65, 80}

Value(kind, items) == [kind |-> kind, form |-> "value", items |-> items]
NoValue == Value("undefined", <<>>)

\* what tf takes for a tensor argument
TensorLike == {"Tensor", "Float32Array", "Array"}

\* JSON.stringify: a typed array is written as an object with index keys,
\* an array as an array
Stringify(v) ==
  [kind |-> IF v.kind = "Float32Array" THEN "Object" ELSE v.kind,
   form |-> "json", items |-> v.items]

\* JSON.parse: the value the text denotes
Parse(text) == [text EXCEPT !.form = "value"]

\* cipher.update(JSON.stringify(template), 'utf8', 'hex') + cipher.final('hex')
EncryptFaceTemplate(template) == [Stringify(template) EXCEPT !.form = "hex"]

\* JSON.parse(decipher.update(encryptedTemplate, 'hex', 'utf8') + decipher.final('utf8'))
DecryptFaceTemplate(encryptedTemplate) ==
  Parse([encryptedTemplate EXCEPT !.form = "json"])

\* the similarity value of a division 0 / 0; no comparison with it holds
NaN == -1000
CompareThreshold == 60

Dot(x, y) == x[1] * y[1] + x[2] * y[2]
ISqrt(n) == CHOOSE k \in 0..100 : k * k <= n /\ n < (k + 1) * (k + 1)

\* dotProduct.div(norm1.mul(norm2)) in hundredths, cut off towards zero
Cosine(x, y) ==
  IF Dot(x, x) * Dot(y, y) = 0 THEN NaN
  ELSE ISqrt((10000 * Dot(x, y) * Dot(x, y)) \div (Dot(x, x) * Dot(y, y)))

NoCall == [fn |-> "none", a |-> NoValue, b |-> NoValue, threw |-> FALSE,
           isMatch |-> FALSE, similarity |-> 0, bestMatch |-> 0,
           bestSimilarity |-> 0]

\* compareFaces(features1, features2): tf rejects an argument that is no
\* tensor, array or typed array, and the catch rethrows
CompareFaces(features1, features2) ==
  IF features1.kind \notin TensorLike \/ features2.kind \notin TensorLike
    THEN [NoCall EXCEPT !.fn = "compareFaces", !.threw = TRUE]
    ELSE [NoCall EXCEPT !.fn = "compareFaces",
            !.similarity = Cosine(features1.items, features2.items),
            !.isMatch = /\ Cosine(features1.items, features2.items) # NaN
                        /\ Cosine(features1.items, features2.items) > CompareThreshold]

\* the arguments a call can be made with
CompareCalls ==
  {[NoCall EXCEPT !.fn = "compareFaces", !.a = Value("Tensor", x), !.b = Value(k, y)] :
     x \in Features, y \in Features, k \in {"Array", "Object"}}
EncryptCalls ==
  {[NoCall EXCEPT !.fn = "encryptFaceTemplate", !.a = Value(k, x)] :
     x \in Features, k \in {"Float32Array", "Array"}}
LoopCalls ==
  {[NoCall EXCEPT !.fn = "bestMatch", !.a = Value("Array", sims)] :
     sims \in UNION {[1..n -> SignedSims] : n \in 1..MaxTemplates}}

CallCompareFaces ==
  /\ callIn.fn = "compareFaces"
  /\ callOut = NoCall
  /\ callOut' = CompareFaces(callIn.a, callIn.b)
  /\ UNCHANGED <<today, store, req, adm, tpl, response, spoofIn, spoofOut,
                 authVars, mobileVars, callIn>>

CallEncrypt ==
  /\ callIn.fn = "encryptFaceTemplate"
  /\ callOut = NoCall
  /\ callOut' = [NoCall EXCEPT !.fn = "encryptFaceTemplate",
                               !.a = EncryptFaceTemplate(callIn.a)]
  /\ UNCHANGED <<today, store, req, adm, tpl, response, spoofIn, spoofOut,
                 authVars, mobileVars, callIn>>

\* the stored ciphertext is decrypted, and the route compares the submitted
\* face with the decrypted value
CallDecrypt ==
  /\ callOut.fn = "encryptFaceTemplate"
  /\ callOut' = [CompareFaces(Value("Tensor", callIn.a.items),
                              DecryptFaceTemplate(callOut.a))
                   EXCEPT !.fn = "decryptFaceTemplate",
                          !.a = DecryptFaceTemplate(callOut.a)]
  /\ UNCHANGED <<today, store, req, adm, tpl, response, spoofIn, spoofOut,
                 authVars, mobileVars, callIn>>

\* the comparison loop over the similarities of the templates compared
CallBestMatch ==
  /\ callIn.fn = "bestMatch"
  /\ callOut = NoCall
  /\ callOut' = [NoCall EXCEPT !.fn = "bestMatch",
                   !.bestMatch = BestMatch(callIn.a.items).bestMatch,
                   !.bestSimilarity = BestMatch(callIn.a.items).bestSimilarity]
  /\ UNCHANGED <<today, store, req, adm, tpl, response, spoofIn, spoofOut,
                 authVars, mobileVars, callIn>>

\* ------------------------------------------------ POST /work-schedules
Radii == {100, 101}

\* validation, the user lookup, the insert (the coordinates are null when
\* none are given), the audit row and the answer
CreateSchedule(a, u, rad, hasCoords) ==
  /\ FreeAdm(a)
  /\ Len(schedules) < MaxSchedules
  /\ schedules' = Append(schedules,
                     [id |-> Len(schedules) + 1, user_id |-> u, is_active |-> TRUE,
                      hasCoords |-> hasCoords, location_radius |-> rad,
                      effective_from |-> 0, effective_to |-> 0])
  /\ audit' = AuditInsert(AuditEntry(Admin, "work_schedule_created",
                                     Len(schedules) + 1, "null", "null"))
  /\ response' = AdminResponse(a, "schedule", Len(schedules) + 1, "Created")
  /\ UNCHANGED <<today, records, emitted, templates, req, adm, tpl,
                 spoofIn, spoofOut, apart>>

\* ---------------------------------------------------- the mobile client
\* the offline queue of the attendance store and syncOfflineRecords, which
\* posts the queued records one after the other
MobileSlot == 1

\* the screen of the attendance form, no submission under way
IdleScreen == [pc |-> "idle", type |-> "none", user |-> "none"]

IdleSync ==
  [pc |-> "idle", queue |-> <<>>, i |-> 0, captured |-> 0,
   isLoading |-> FALSE, results |-> <<>>]

\* markAttendanceOffline: the record queued by the attendance screen, with the
\* capture time as its timestamp
OfflineAttendance(id, u, type) ==
  [id |-> id, userId |-> u, type |-> type, timestamp |-> today]

\* markAttendanceOffline, then addOfflineRecord
MarkAttendanceOffline(u, type) ==
  /\ offlineRecords' = Append(offlineRecords,
                              OfflineAttendance(sync.captured + 1, u, type))
  /\ sync' = [sync EXCEPT !.captured = @ + 1]
  /\ Quiet
  /\ UNCHANGED <<today, store, req, adm, tpl, spoofIn, spoofOut, authVars, callVars,
                 client, screen>>

\* a removal that writes back the list syncOfflineRecords read at its start
RemoveOfflineRecord_FromSnapshot(queue, id) ==
  SelectSeq(sync.queue, LAMBDA rec : rec.id # id)

\* removeOfflineRecord
RemoveOfflineRecord(queue, id) == SelectSeq(queue, LAMBDA rec : rec.id # id)

\* syncOfflineRecords up to the loop over the records read from the store
SyncBegin ==
  /\ sync.pc = "idle"
  /\ Len(offlineRecords) > 0
  /\ sync' = [sync EXCEPT !.pc = "send", !.queue = offlineRecords, !.i = 1,
                          !.isLoading = TRUE, !.results = <<>>]
  /\ Quiet
  /\ UNCHANGED <<today, store, req, adm, tpl, spoofIn, spoofOut, offlineRecords,
                 authVars, callVars, client, screen>>

\* the record the loop of syncOfflineRecords is at
Syncing == sync.queue[sync.i]

\* attendanceAPI.markAttendance(record.type, formData): the form carries the
\* image, the position and the device information, and the backend handler
\* of the record's type receives it
SyncSend ==
  /\ sync.pc = "send"
  /\ IF Syncing.type = "check_in"
       THEN CheckInArrives(MobileSlot, Syncing.userId)
       ELSE CheckOutArrives(MobileSlot, Syncing.userId)
  /\ sync' = [sync EXCEPT !.pc = "await"]
  /\ UNCHANGED <<offlineRecords, client, screen>>

\* results.push({ id: record.id, success })
Pushed(success) == Append(sync.results, [id |-> Syncing.id, success |-> success])

\* the next record of the loop, or the end of syncOfflineRecords
SyncNext ==
  IF sync.i < Len(sync.queue)
    THEN [sync EXCEPT !.pc = "send", !.i = @ + 1]
    ELSE [sync EXCEPT !.pc = "idle", !.queue = <<>>, !.i = 0, !.isLoading = FALSE]

\* the post does not reach the backend: the inner catch keeps the record
SyncSendFails ==
  /\ sync.pc = "send"
  /\ sync' = [SyncNext EXCEPT !.results = Pushed(FALSE)]
  /\ Quiet
  /\ UNCHANGED <<today, store, req, adm, tpl, spoofIn, spoofOut, offlineRecords,
                 authVars, callVars, client, screen>>

\* the answer to the post is waiting for the client
Delivered ==
  /\ sync.pc = "await"
  /\ response.to = "user"
  /\ response.slot = MobileSlot

\* the answer of the backend: a success removes the record from the queue,
\* an error status makes markAttendance throw and the record stays
SyncReceive ==
  /\ Delivered
  /\ offlineRecords' = IF response.outcome = "Accepted"
                          THEN RemoveOfflineRecord(offlineRecords, Syncing.id)
                          ELSE offlineRecords
  /\ sync' = [SyncNext EXCEPT !.results = Pushed(response.outcome = "Accepted")]
  /\ Quiet
  /\ UNCHANGED <<today, store, req, adm, tpl, spoofIn, spoofOut, authVars, callVars,
                 client, screen>>

\* markAttendanceOnline up to the post: the form with the photo, the position
\* and the device information goes to the handler of the submission's type
OnlineSend(u, type) ==
  /\ screen.pc = "idle"
  /\ IF type = "check_in"
       THEN CheckInArrives(MobileSlot, u)
       ELSE CheckOutArrives(MobileSlot, u)
  /\ screen' = [pc |-> "await", type |-> type, user |-> u]
  /\ UNCHANGED <<offlineRecords, sync, client>>

\* the answer to the screen's post is waiting for the client
ScreenDelivered ==
  /\ screen.pc = "await"
  /\ response.to = "user"
  /\ response.slot = MobileSlot

\* the answer of the backend to markAttendanceOnline: on success the screen
\* goes back; an error status makes markAttendance throw, and the catch calls
\* markAttendanceOffline
OnlineReceive ==
  /\ ScreenDelivered
  /\ IF response.outcome = "Accepted"
       THEN UNCHANGED <<offlineRecords, sync>>
       ELSE /\ offlineRecords' = Append(offlineRecords,
                  OfflineAttendance(sync.captured + 1, screen.user, screen.type))
            /\ sync' = [sync EXCEPT !.captured = @ + 1]
  /\ screen' = IdleScreen
  /\ Quiet
  /\ UNCHANGED <<today, store, req, adm, tpl, spoofIn, spoofOut, authVars, callVars,
                 client>>

\* ------------------------------------------------- the mobile API client
\* apiClient of the mobile app with its response interceptor, and the token
\* fields of the auth store.  The request in flight is the original request
\* (depth 1) or the refresh post of the interceptor that waits below it: a
\* refresh post is a request of apiClient too, with a config of its own.
Endpoints == {"/attendance/today", "/attendance/history"}
HttpStatuses == {200, 401, 500}

\* the auth store before login, no request made
IdleClient ==
  [token |-> FALSE, refreshToken |-> FALSE, pc |-> "idle", endpoint |-> "none",
   n |-> 0, depth |-> 0, retry |-> FALSE, refreshes |-> 0, retries |-> 0,
   status |-> 0, outcome |-> "none"]

\* login of the auth store on a successful answer: user, token, refreshToken
ClientLogin ==
  /\ client.pc \in {"idle", "settled"}
  /\ ~client.token
  /\ client' = [client EXCEPT !.token = TRUE, !.refreshToken = TRUE]
  /\ Quiet
  /\ UNCHANGED <<today, store, req, adm, tpl, spoofIn, spoofOut, authVars, callVars,
                 offlineRecords, sync, screen>>

\* a call of apiClient: the request interceptor adds the token, if any
ApiRequest(e) ==
  /\ client.pc \in {"idle", "settled"}
  /\ client' = [client EXCEPT !.pc = "sent", !.endpoint = e, !.n = @ + 1,
                              !.depth = 1, !.retry = FALSE, !.refreshes = 0,
                              !.retries = 0, !.status = 0, !.outcome = "none"]
  /\ Quiet
  /\ UNCHANGED <<today, store, req, adm, tpl, spoofIn, spoofOut, authVars, callVars,
                 offlineRecords, sync, screen>>

\* logout of the auth store
LoggedOut(c) == [c EXCEPT !.token = FALSE, !.refreshToken = FALSE]

\* Promise.reject of the request in flight.  A rejected refresh post makes
\* authAPI.refreshToken throw, refreshAccessToken log out and return
\* { success: false }, and the interceptor waiting for it log out and reject
\* its own request, down to the original request
Rejected(c) ==
  [(IF c.depth > 1 THEN LoggedOut(c) ELSE c)
     EXCEPT !.pc = "settled", !.outcome = "rejected", !.depth = 0]

\* originalRequest._retry of the request in flight
RetryMarked(c) == c.retry

\* the answer to the request in flight passes the response interceptor
Receive(status) ==
  /\ client.pc = "sent"
  /\ client' =
       LET c == [client EXCEPT !.status = status] IN
       IF status = 200
         THEN IF c.depth = 1
                THEN [c EXCEPT !.pc = "settled", !.outcome = "resolved", !.depth = 0]
                \* refreshAccessToken stores the new tokens; the interceptor
                \* below sends its request again
                ELSE [c EXCEPT !.token = TRUE, !.refreshToken = TRUE,
                               !.depth = @ - 1, !.retry = TRUE,
                               !.retries = IF c.depth = 2 THEN @ + 1 ELSE @]
       ELSE IF status = 401 /\ ~RetryMarked(c)
         THEN IF c.refreshToken
                \* refreshAccessToken posts /auth/refresh through apiClient
                THEN [c EXCEPT !.depth = @ + 1, !.retry = FALSE, !.refreshes = @ + 1]
                \* 'No refresh token available': the interceptor logs out
                ELSE Rejected(LoggedOut(c))
       ELSE Rejected(c)
  /\ Quiet
  /\ UNCHANGED <<today, store, req, adm, tpl, spoofIn, spoofOut, authVars, callVars,
                 offlineRecords, sync, screen>>

\* ------------------------------------------------- authentication routes
\* POST /login and POST /refresh of the auth routes, and PUT /:id/status of
\* the user routes; the store answers every query of these handlers
AuthSlots == {1, 2}
Statuses == {"active", "inactive", "suspended"}

\* the primary key of a user's row, as resource_id has it
UserKey == [u \in Users |-> 1]

IdleAuth == [pc |-> "idle", kind |-> "none", user |-> "none", valid |-> FALSE,
             oldStatus |-> "none", status |-> "none", tokens |-> "none"]

\* a new request runs in the lowest free slot
FreeAuth(s) ==
  /\ auth[s].pc = "idle"
  /\ \A o \in AuthSlots : o < s => auth[o].pc # "idle"

\* res.status(code).json(...): the handler returns and its slot is free again
AuthAnswer(s, kind, u, valid, code, issued) ==
  /\ response' = [NoResponse EXCEPT !.to = "user", !.slot = s, !.type = kind,
                                    !.user = u, !.outcome = "answered",
                                    !.valid = valid, !.code = code, !.tokens = issued]
  /\ auth' = [auth EXCEPT ![s] = IdleAuth]

\* db('users').where('status', 'active') of the login and refresh handlers,
\* without the status condition
FindActiveUser_AnyStatus(u) == u

\* db('users').where(...).andWhere('status', 'active').first()
FindActiveUser(u) == IF users[u] = "active" THEN u ELSE "none"

\* generateTokens(user): the access and the refresh token carry the user's id
GenerateTokens(u) == u

\* audit rows written and requests that will write one
AuthOps ==
  Len(audit) + Cardinality({s \in AuthSlots : auth[s].pc # "idle"})

\* POST /login up to the password comparison: validation, the user lookup
LoginBegin(s, u, input) ==
  /\ FreeAuth(s)
  /\ input \in {"right", "wrong", "invalid"}
  /\ IF input = "invalid"
       THEN AuthAnswer(s, "login", u, FALSE, 400, "none")
       ELSE IF FindActiveUser(u) = "none"
         THEN AuthAnswer(s, "login", u, input = "right", 401, "none")
         ELSE /\ auth' = [auth EXCEPT ![s] = [IdleAuth EXCEPT !.pc = "compare",
                             !.kind = "login", !.user = FindActiveUser(u),
                             !.valid = (input = "right")]]
              /\ Quiet
  /\ UNCHANGED <<today, store, req, adm, tpl, spoofIn, spoofOut,
                 users, tokens, mobileVars, callVars>>

\* bcrypt.compare, then generateTokens(user)
LoginCompare(s) ==
  /\ auth[s].pc = "compare"
  /\ IF ~auth[s].valid
       THEN AuthAnswer(s, "login", auth[s].user, FALSE, 401, "none")
       ELSE /\ auth' = [auth EXCEPT ![s].pc = "lastLogin",
                                    ![s].tokens = GenerateTokens(auth[s].user)]
            /\ Quiet
  /\ UNCHANGED <<today, store, req, adm, tpl, spoofIn, spoofOut,
                 users, tokens, mobileVars, callVars>>

\* db('users').update({ last_login })
LoginUpdate(s) ==
  /\ auth[s].pc = "lastLogin"
  /\ auth' = [auth EXCEPT ![s].pc = "audit"]
  /\ Quiet
  /\ UNCHANGED <<today, store, req, adm, tpl, spoofIn, spoofOut,
                 users, tokens, mobileVars, callVars>>

\* the audit row of the login, then res.json with both tokens
LoginAudit(s) ==
  /\ auth[s].pc = "audit"
  /\ auth[s].kind = "login"
  /\ audit' = AuditInsert(AuditEntry(auth[s].user, "login", 0, "null", "null"))
  /\ tokens' = tokens \cup {auth[s].tokens}
  /\ AuthAnswer(s, "login", auth[s].user, TRUE, 200, auth[s].tokens)
  /\ UNCHANGED <<today, records, emitted, templates, schedules, req, adm, tpl,
                 spoofIn, spoofOut, users, mobileVars, callVars>>

\* POST /refresh: jwt.verify, the user lookup, generateTokens, res.json; a
\* refresh token verifies when it was issued to the user before
Refresh(s, u, valid) ==
  /\ FreeAuth(s)
  /\ valid => u \in tokens
  /\ IF ~valid \/ FindActiveUser(u) = "none"
       THEN /\ AuthAnswer(s, "refresh", u, valid, 401, "none")
            /\ UNCHANGED tokens
       ELSE /\ AuthAnswer(s, "refresh", u, valid, 200, GenerateTokens(FindActiveUser(u)))
            /\ tokens' = tokens \cup {GenerateTokens(FindActiveUser(u))}
  /\ UNCHANGED <<today, store, req, adm, tpl, spoofIn, spoofOut,
                 users, mobileVars, callVars>>

\* PUT /:id/status up to the update: validation, the user lookup
StatusBegin(s, u, status) ==
  /\ FreeAuth(s)
  /\ IF status \notin Statuses
       THEN AuthAnswer(s, "status", u, FALSE, 400, "none")
       ELSE /\ auth' = [auth EXCEPT ![s] = [IdleAuth EXCEPT !.pc = "update",
                           !.kind = "status", !.user = u, !.valid = TRUE,
                           !.oldStatus = users[u], !.status = status]]
            /\ Quiet
  /\ UNCHANGED <<today, store, req, adm, tpl, spoofIn, spoofOut,
                 users, tokens, mobileVars, callVars>>

\* db('users').where('id', id).update({ status })
StatusUpdate(s) ==
  /\ auth[s].pc = "update"
  /\ users' = [users EXCEPT ![auth[s].user] = auth[s].status]
  /\ auth' = [auth EXCEPT ![s].pc = "audit"]
  /\ Quiet
  /\ UNCHANGED <<today, store, req, adm, tpl, spoofIn, spoofOut,
                 tokens, mobileVars, callVars>>

\* the audit row of the status change, then res.json
StatusAudit(s) ==
  /\ auth[s].pc = "audit"
  /\ auth[s].kind = "status"
  /\ audit' = AuditInsert(AuditEntry(Admin, "user_status_changed",
                                     UserKey[auth[s].user],
                                     auth[s].oldStatus, auth[s].status))
  /\ AuthAnswer(s, "status", auth[s].user, TRUE, 200, "none")
  /\ UNCHANGED <<today, records, emitted, templates, schedules, req, adm, tpl,
                 spoofIn, spoofOut, users, tokens, mobileVars, callVars>>

\* POST /logout: the audit row, then res.json
Logout(s, u) ==
  /\ FreeAuth(s)
  /\ u \in tokens
  /\ audit' = AuditInsert(AuditEntry(u, "logout", 0, "null", "null"))
  /\ AuthAnswer(s, "logout", u, TRUE, 200, "none")
  /\ UNCHANGED <<today, records, emitted, templates, schedules, req, adm, tpl,
                 spoofIn, spoofOut, users, tokens, mobileVars, callVars>>

\* PUT /:id of the user routes up to the audit row: validation, the access
\* check, the update of the profile columns
UpdateUserBegin(s, u, input) ==
  /\ FreeAuth(s)
  /\ input \in {"ok", "invalid", "denied"}
  /\ IF input = "invalid" THEN AuthAnswer(s, "update", u, FALSE, 400, "none")
     ELSE IF input = "denied" THEN AuthAnswer(s, "update", u, FALSE, 403, "none")
     ELSE /\ auth' = [auth EXCEPT ![s] = [IdleAuth EXCEPT !.pc = "audit",
                         !.kind = "update", !.user = u, !.valid = TRUE]]
          /\ Quiet
  /\ UNCHANGED <<today, store, req, adm, tpl, spoofIn, spoofOut,
                 users, tokens, mobileVars, callVars>>

\* the audit row of the update, then res.json
UpdateUserAudit(s) ==
  /\ auth[s].pc = "audit"
  /\ auth[s].kind = "update"
  /\ audit' = AuditInsert(AuditEntry(auth[s].user, "user_updated",
                                     UserKey[auth[s].user], "null", "null"))
  /\ AuthAnswer(s, "update", auth[s].user, TRUE, 200, "none")
  /\ UNCHANGED <<today, records, emitted, templates, schedules, req, adm, tpl,
                 spoofIn, spoofOut, users, tokens, mobileVars, callVars>>

\* ------------------------------------------------------- initial states
Template(id, u, primary) ==
  [id |-> id, user_id |-> u, is_primary |-> primary, live |-> TRUE]

\* enrolled templates when the pipeline starts: none, or one primary template
TemplateConfigs == {<<>>, <<Template(1, "u1", TRUE)>>}

Schedule(id, u, rad) ==
  [id |-> id, user_id |-> u, is_active |-> TRUE, hasCoords |-> TRUE,
   location_radius |-> rad, effective_from |-> 0, effective_to |-> 0]

\* work schedules when the pipeline starts: none, or one site with the default radius
ScheduleConfigs == {<<>>, <<Schedule(1, "u1", 100)>>}

NoSpoofIn == Sample([isLive |-> FALSE, confidence |-> 0, error |-> FALSE],
                    [isRealTexture |-> FALSE, textureScore |-> 0],
                    [hasDepth |-> FALSE, depthScore |-> 0])
NoSpoofOut == [overallScore |-> 0, isLive |-> FALSE, passed |-> FALSE, threw |-> FALSE,
               done |-> FALSE]

\* outside the backend pipeline nothing has happened yet
InitApart ==
  /\ users = [u \in Users |-> "active"]
  /\ auth = [s \in AuthSlots |-> IdleAuth]
  /\ tokens = {}
  /\ offlineRecords = <<>>
  /\ sync = IdleSync
  /\ client = IdleClient
  /\ screen = IdleScreen
  /\ callIn = NoCall
  /\ callOut = NoCall

Init ==
  /\ today = 1
  /\ records = <<>>
  /\ audit = <<>>
  /\ emitted = <<>>
  /\ templates \in TemplateConfigs
  /\ schedules \in ScheduleConfigs
  /\ req = [r \in Slots |-> IdleReq]
  /\ adm = [a \in AdminSlots |-> IdleAdm]
  /\ tpl = [t \in TplSlots |-> IdleTpl]
  /\ response = NoResponse
  /\ spoofIn = NoSpoofIn
  /\ spoofOut = NoSpoofOut
  /\ InitApart

Next ==
  \/ \E r \in Slots, u \in Users : CheckInBegin(r, u)
  \/ \E r \in Slots, u \in Users : CheckOutBegin(r, u)
  \/ \E r \in Slots : DetectFaces(r)
  \/ \E r \in Slots : AntiSpoofing(r)
  \/ \E r \in Slots : MatchTemplates(r)
  \/ \E r \in Slots : Geofence(r)
  \/ \E r \in Slots : InsertRecord(r)
  \/ \E r \in Slots : InsertAudit(r)
  \/ \E a \in AdminSlots, id \in 1..MaxRecords :
       Reviews < MaxReviews /\ ApproveBegin(a, id)
  \/ \E a \in AdminSlots, id \in 1..MaxRecords, reason \in {"", "late"} :
       Reviews < MaxReviews /\ RejectBegin(a, id, reason)
  \/ \E a \in AdminSlots : ReviewUpdate(a)
  \/ \E a \in AdminSlots : ReviewAudit(a)
  \/ NextDay

Spec == Init /\ [][Next]_vars

\* --------------------------------- submissions against an enrolled vault
\* one user submitting check-ins and check-outs one after the other while an
\* admin deletes templates; the vault starts with what two registrations
\* leave (a primary template, or a primary and a second one), the site is
\* absent, configured, or a schedule without coordinates
EnrolledConfigs ==
  {<<Template(1, "u1", TRUE)>>,
   <<Template(1, "u1", TRUE), Template(2, "u1", FALSE)>>}

SiteConfigs ==
  {<<>>, <<Schedule(1, "u1", 100)>>,
   <<[Schedule(1, "u1", 100) EXCEPT !.hasCoords = FALSE]>>}

InitEnrolled ==
  /\ today = 1
  /\ records = <<>>
  /\ audit = <<>>
  /\ emitted = <<>>
  /\ templates \in EnrolledConfigs
  /\ schedules \in SiteConfigs
  /\ req = [r \in Slots |-> IdleReq]
  /\ adm = [a \in AdminSlots |-> IdleAdm]
  /\ tpl = [t \in TplSlots |-> IdleTpl]
  /\ response = NoResponse
  /\ spoofIn = NoSpoofIn
  /\ spoofOut = NoSpoofOut
  /\ InitApart

NextEnrolled ==
  \/ \E u \in Users : CheckInBegin(1, u)
  \/ \E u \in Users : CheckOutBegin(1, u)
  \/ DetectFaces(1)
  \/ AntiSpoofing(1)
  \/ MatchTemplates(1)
  \/ Geofence(1)
  \/ InsertRecord(1)
  \/ InsertAudit(1)
  \/ \E id \in 1..2 : DeleteBegin(1, id)
  \/ DeleteRow(1)
  \/ DeleteAudit(1)

SpecEnrolled == InitEnrolled /\ [][NextEnrolled]_vars

\* ------------------------------------------- overlapping admin reviews
\* two admins approving and rejecting at the same time, over a table as the
\* pipeline leaves it: a flagged check_in, an approved check_in, or an
\* approved check_in with its approved check_out
Row(id, type, ts, status, reason, distance) ==
  [id |-> id, user_id |-> "u1", type |-> type, day |-> 1, timestamp |-> ts,
   confidence_score |-> 80, liveness_passed |-> TRUE,
   status |-> status, rejection_reason |-> reason, distance |-> distance,
   approved_by |-> "null", approved_at |-> 0]

ReviewTables ==
  {<<Row(1, "check_in", 0, "flagged", LocationMessage(1004, 100), 1004)>>,
   <<Row(1, "check_in", 0, "approved", NoReason, 1000)>>,
   <<Row(1, "check_in", 0, "approved", NoReason, 1000),
     Row(2, "check_out", 1, "approved", NoReason, 1000)>>}

InitReview ==
  /\ today = 1
  /\ records \in ReviewTables
  /\ audit = <<>>
  /\ emitted = <<>>
  /\ templates = <<Template(1, "u1", TRUE)>>
  /\ schedules = <<Schedule(1, "u1", 100)>>
  /\ req = [r \in Slots |-> IdleReq]
  /\ adm = [a \in AdminSlots |-> IdleAdm]
  /\ tpl = [t \in TplSlots |-> IdleTpl]
  /\ response = NoResponse
  /\ spoofIn = NoSpoofIn
  /\ spoofOut = NoSpoofOut
  /\ InitApart

NextReview ==
  \/ \E a \in AdminSlots, id \in 1..MaxRecords :
       Reviews < MaxOverlappingReviews /\ ApproveBegin(a, id)
  \/ \E a \in AdminSlots, id \in 1..MaxRecords, reason \in {"", "late"} :
       Reviews < MaxOverlappingReviews /\ RejectBegin(a, id, reason)
  \/ \E a \in AdminSlots : ReviewUpdate(a)
  \/ \E a \in AdminSlots : ReviewAudit(a)

SpecReview == InitReview /\ [][NextReview]_vars

\* ------------------------------------------ the template vault on its own
\* registrations, deletions and set-primary requests of the admins, from an
\* empty face_templates table
InitTemplates ==
  /\ today = 1
  /\ records = <<>>
  /\ audit = <<>>
  /\ emitted = <<>>
  /\ templates = <<>>
  /\ schedules = <<>>
  /\ req = [r \in Slots |-> IdleReq]
  /\ adm = [a \in AdminSlots |-> IdleAdm]
  /\ tpl = [t \in TplSlots |-> IdleTpl]
  /\ response = NoResponse
  /\ spoofIn = NoSpoofIn
  /\ spoofOut = NoSpoofOut
  /\ InitApart

\* rows stored and registrations under way leave room in the table
AdmitTemplate ==
  Len(templates)
    + Cardinality({t \in TplSlots : tpl[t].kind = "register" /\ tpl[t].pc \in {"unset", "insert"}})
    < MaxTemplates

NextTemplates ==
  \/ \E t \in TplSlots, u \in Users, isPrimary \in BOOLEAN :
       TemplateOps < MaxTemplateOps /\ AdmitTemplate /\ RegisterBegin(t, u, isPrimary)
  \/ \E t \in TplSlots : RegisterUnset(t)
  \/ \E t \in TplSlots : RegisterInsert(t)
  \/ \E t \in TplSlots : RegisterAudit(t)
  \/ \E t \in TplSlots, id \in 1..MaxTemplates :
       TemplateOps < MaxTemplateOps /\ DeleteBegin(t, id)
  \/ \E t \in TplSlots : DeleteRow(t)
  \/ \E t \in TplSlots : DeleteAudit(t)
  \/ \E t \in TplSlots, id \in 1..MaxTemplates :
       TemplateOps < MaxTemplateOps /\ SetPrimaryBegin(t, id)
  \/ \E t \in TplSlots : SetPrimaryUnset(t)
  \/ \E t \in TplSlots : SetPrimarySet(t)
  \/ \E t \in TplSlots : SetPrimaryAudit(t)

SpecTemplates == InitTemplates /\ [][NextTemplates]_vars

\* ------------------------------- performAntiSpoofingChecks on its own
\* every answer the three sub-checks can give, then one call of the aggregator
InitSpoof ==
  /\ today = 1
  /\ records = <<>>
  /\ audit = <<>>
  /\ emitted = <<>>
  /\ templates = <<>>
  /\ schedules = <<>>
  /\ req = [r \in Slots |-> IdleReq]
  /\ adm = [a \in AdminSlots |-> IdleAdm]
  /\ tpl = [t \in TplSlots |-> IdleTpl]
  /\ response = NoResponse
  /\ spoofIn \in [lv : LivenessResults \cup {LivenessError}, tx : TextureResults,
                  dp : DepthResults]
  /\ spoofOut = NoSpoofOut
  /\ InitApart

Assess ==
  /\ ~spoofOut.done
  /\ spoofOut' = [overallScore |-> PerformAntiSpoofingChecks(spoofIn.lv, spoofIn.tx, spoofIn.dp).overallScore,
                  isLive |-> PerformAntiSpoofingChecks(spoofIn.lv, spoofIn.tx, spoofIn.dp).isLive,
                  passed |-> PerformAntiSpoofingChecks(spoofIn.lv, spoofIn.tx, spoofIn.dp).passed,
                  threw |-> PerformAntiSpoofingChecks(spoofIn.lv, spoofIn.tx, spoofIn.dp).threw,
                  done |-> TRUE]
  /\ UNCHANGED <<today, store, req, adm, tpl, response, spoofIn, apart>>

NextSpoof == Assess

SpecSpoof == InitSpoof /\ [][NextSpoof]_vars

\* -------------------------------------------- logins and status changes
\* one registered user, active as POST /register stores it, who logs in and
\* refreshes while an admin changes the status
InitAuth ==
  /\ today = 1
  /\ records = <<>>
  /\ audit = <<>>
  /\ emitted = <<>>
  /\ templates = <<>>
  /\ schedules = <<>>
  /\ req = [r \in Slots |-> IdleReq]
  /\ adm = [a \in AdminSlots |-> IdleAdm]
  /\ tpl = [t \in TplSlots |-> IdleTpl]
  /\ response = NoResponse
  /\ spoofIn = NoSpoofIn
  /\ spoofOut = NoSpoofOut
  /\ InitApart

NextAuth ==
  \/ \E s \in AuthSlots, u \in Users, input \in {"right", "wrong", "invalid"} :
       AuthOps < MaxAuthOps /\ LoginBegin(s, u, input)
  \/ \E s \in AuthSlots : LoginCompare(s)
  \/ \E s \in AuthSlots : LoginUpdate(s)
  \/ \E s \in AuthSlots : LoginAudit(s)
  \/ \E s \in AuthSlots, u \in Users, valid \in BOOLEAN : Refresh(s, u, valid)
  \/ \E s \in AuthSlots, u \in Users, status \in Statuses \cup {"deleted"} :
       AuthOps < MaxAuthOps /\ StatusBegin(s, u, status)
  \/ \E s \in AuthSlots : StatusUpdate(s)
  \/ \E s \in AuthSlots : StatusAudit(s)

SpecAuth == InitAuth /\ [][NextAuth]_vars

\* ------------------------------------------------- the backend as a whole
\* every operation that writes an audit row: both submissions, the reviews,
\* the template requests, verification, the user and authentication routes
\* and the creation of schedules, one request of each kind at a time
Logging ==
  Len(audit) + Cardinality({r \in Slots : req[r].pc # "idle"})
             + Cardinality({a \in AdminSlots : adm[a].pc # "idle"})
             + Cardinality({t \in TplSlots : tpl[t].pc # "idle"})
             + Cardinality({o \in AuthSlots : auth[o].pc # "idle"})

\* a user with two templates, the first one primary, and no work schedule
InitBackend ==
  /\ today = 1
  /\ records = <<>>
  /\ audit = <<>>
  /\ emitted = <<>>
  /\ templates = <<Template(1, "u1", TRUE), Template(2, "u1", FALSE)>>
  /\ schedules = <<>>
  /\ req = [r \in Slots |-> IdleReq]
  /\ adm = [a \in AdminSlots |-> IdleAdm]
  /\ tpl = [t \in TplSlots |-> IdleTpl]
  /\ response = NoResponse
  /\ spoofIn = NoSpoofIn
  /\ spoofOut = NoSpoofOut
  /\ InitApart

NextBackend ==
  \/ \E u \in Users : Logging < MaxLogged /\ CheckInBegin(1, u)
  \/ \E u \in Users : Logging < MaxLogged /\ CheckOutBegin(1, u)
  \/ DetectFaces(1)
  \/ AntiSpoofing(1)
  \/ MatchTemplates(1)
  \/ Geofence(1)
  \/ InsertRecord(1)
  \/ InsertAudit(1)
  \/ \E id \in 1..MaxRecords : Logging < MaxLogged /\ ApproveBegin(1, id)
  \/ \E id \in 1..MaxRecords, reason \in {"", "late"} :
       Logging < MaxLogged /\ RejectBegin(1, id, reason)
  \/ ReviewUpdate(1)
  \/ ReviewAudit(1)
  \/ \E u \in Users, rad \in Radii, hasCoords \in BOOLEAN :
       Logging < MaxLogged /\ CreateSchedule(1, u, rad, hasCoords)
  \/ \E u \in Users, isPrimary \in BOOLEAN :
       Logging < MaxLogged /\ AdmitTemplate /\ RegisterBegin(1, u, isPrimary)
  \/ RegisterUnset(1)
  \/ RegisterInsert(1)
  \/ RegisterAudit(1)
  \/ \E id \in 1..MaxTemplates : Logging < MaxLogged /\ DeleteBegin(1, id)
  \/ DeleteRow(1)
  \/ DeleteAudit(1)
  \/ \E id \in 1..MaxTemplates : Logging < MaxLogged /\ SetPrimaryBegin(1, id)
  \/ SetPrimaryUnset(1)
  \/ SetPrimarySet(1)
  \/ SetPrimaryAudit(1)
  \/ \E u \in Users : ListTemplates(1, u)
  \/ \E u \in Users : Logging < MaxLogged /\ VerifyBegin(1, u)
  \/ VerifyMatch(1)
  \/ VerifyAudit(1)
  \/ \E u \in Users, input \in {"right", "wrong", "invalid"} :
       Logging < MaxLogged /\ LoginBegin(1, u, input)
  \/ LoginCompare(1)
  \/ LoginUpdate(1)
  \/ LoginAudit(1)
  \/ \E u \in Users, valid \in BOOLEAN : Refresh(1, u, valid)
  \/ \E u \in Users : Logging < MaxLogged /\ Logout(1, u)
  \/ \E u \in Users, input \in {"ok", "invalid", "denied"} :
       Logging < MaxLogged /\ UpdateUserBegin(1, u, input)
  \/ UpdateUserAudit(1)
  \/ \E u \in Users, status \in Statuses \cup {"deleted"} :
       Logging < MaxLogged /\ StatusBegin(1, u, status)
  \/ StatusUpdate(1)
  \/ StatusAudit(1)

SpecBackend == InitBackend /\ [][NextBackend]_vars

\* ------------------------------------------------- a user's suspension
\* status changes made or under way
StatusChanges ==
  Cardinality({i \in 1..Len(audit) : audit[i].action = "user_status_changed"})
    + Cardinality({s \in AuthSlots : auth[s].pc # "idle"})

\* an enrolled active user submitting while an admin changes the status
InitSuspension ==
  /\ today = 1
  /\ records = <<>>
  /\ audit = <<>>
  /\ emitted = <<>>
  /\ templates = <<Template(1, "u1", TRUE)>>
  /\ schedules = <<>>
  /\ req = [r \in Slots |-> IdleReq]
  /\ adm = [a \in AdminSlots |-> IdleAdm]
  /\ tpl = [t \in TplSlots |-> IdleTpl]
  /\ response = NoResponse
  /\ spoofIn = NoSpoofIn
  /\ spoofOut = NoSpoofOut
  /\ InitApart

NextSuspension ==
  \/ \E u \in Users : CheckInBegin(1, u)
  \/ \E u \in Users : CheckOutBegin(1, u)
  \/ DetectFaces(1)
  \/ AntiSpoofing(1)
  \/ MatchTemplates(1)
  \/ Geofence(1)
  \/ InsertRecord(1)
  \/ InsertAudit(1)
  \/ \E u \in Users, status \in Statuses \cup {"deleted"} :
       StatusChanges < MaxAuthOps /\ StatusBegin(1, u, status)
  \/ StatusUpdate(1)
  \/ StatusAudit(1)

SpecSuspension == InitSuspension /\ [][NextSuspension]_vars

\* ------------------------------------------------ the client's requests
\* a client that logs in and calls the API; the server answers each request
\* with 200, 401 or an error, and every request is answered or times out
NextClient ==
  \/ ClientLogin
  \/ \E e \in Endpoints : client.n < MaxRequests /\ ApiRequest(e)
  \/ \E status \in HttpStatuses :
       /\ (status = 401 => client.depth < MaxRefreshDepth)
       /\ Receive(status)

SpecClient ==
  /\ InitAuth
  /\ [][NextClient]_vars
  /\ WF_vars(\E status \in HttpStatuses : Receive(status))

\* ------------------------------------------------ overlapping schedules
\* an enrolled user checking in while an admin creates work schedules, none
\* of which ends or replaces an earlier one
InitSchedules ==
  /\ today = 1
  /\ records = <<>>
  /\ audit = <<>>
  /\ emitted = <<>>
  /\ templates = <<Template(1, "u1", TRUE)>>
  /\ schedules = <<>>
  /\ req = [r \in Slots |-> IdleReq]
  /\ adm = [a \in AdminSlots |-> IdleAdm]
  /\ tpl = [t \in TplSlots |-> IdleTpl]
  /\ response = NoResponse
  /\ spoofIn = NoSpoofIn
  /\ spoofOut = NoSpoofOut
  /\ InitApart

NextSchedules ==
  \/ \E u \in Users, rad \in Radii, hasCoords \in BOOLEAN :
       CreateSchedule(1, u, rad, hasCoords)
  \/ \E u \in Users : CheckInBegin(1, u)
  \/ DetectFaces(1)
  \/ AntiSpoofing(1)
  \/ MatchTemplates(1)
  \/ Geofence(1)
  \/ InsertRecord(1)
  \/ InsertAudit(1)

SpecSchedules == InitSchedules /\ [][NextSchedules]_vars

\* -------------------------------------------------- queued submissions
\* an enrolled user without a work site whose client queues submissions and
\* syncs them, on the day of the capture or on the next
InitOffline ==
  /\ today = 1
  /\ records = <<>>
  /\ audit = <<>>
  /\ emitted = <<>>
  /\ templates = <<Template(1, "u1", TRUE)>>
  /\ schedules = <<>>
  /\ req = [r \in Slots |-> IdleReq]
  /\ adm = [a \in AdminSlots |-> IdleAdm]
  /\ tpl = [t \in TplSlots |-> IdleTpl]
  /\ response = NoResponse
  /\ spoofIn = NoSpoofIn
  /\ spoofOut = NoSpoofOut
  /\ InitApart

\* records queued and submissions of the screen that may come to be queued
Captures == sync.captured + (IF screen.pc = "idle" THEN 0 ELSE 1)

NextOffline ==
  \/ \E u \in Users, type \in {"check_in", "check_out"} :
       /\ Captures < MaxOffline
       /\ ~Delivered /\ ~ScreenDelivered
       /\ MarkAttendanceOffline(u, type)
  \/ \E u \in Users, type \in {"check_in", "check_out"} :
       /\ Captures < MaxOffline
       /\ ~Delivered
       /\ OnlineSend(u, type)
  \/ OnlineReceive
  \/ ~ScreenDelivered /\ SyncBegin
  \/ ~ScreenDelivered /\ SyncSend
  \/ ~ScreenDelivered /\ SyncSendFails
  \/ SyncReceive
  \/ DetectFaces(MobileSlot)
  \/ AntiSpoofing(MobileSlot)
  \/ MatchTemplates(MobileSlot)
  \/ Geofence(MobileSlot)
  \/ InsertRecord(MobileSlot)
  \/ InsertAudit(MobileSlot)
  \/ ~Delivered /\ ~ScreenDelivered /\ NextDay

SpecOffline == InitOffline /\ [][NextOffline]_vars

\* ------------------------------------------------ calls of the service
InitCalls ==
  /\ today = 1
  /\ records = <<>>
  /\ audit = <<>>
  /\ emitted = <<>>
  /\ templates = <<>>
  /\ schedules = <<>>
  /\ req = [r \in Slots |-> IdleReq]
  /\ adm = [a \in AdminSlots |-> IdleAdm]
  /\ tpl = [t \in TplSlots |-> IdleTpl]
  /\ response = NoResponse
  /\ spoofIn = NoSpoofIn
  /\ spoofOut = NoSpoofOut
  /\ users = [u \in Users |-> "active"]
  /\ auth = [s \in AuthSlots |-> IdleAuth]
  /\ tokens = {}
  /\ offlineRecords = <<>>
  /\ sync = IdleSync
  /\ client = IdleClient
  /\ screen = IdleScreen
  /\ callIn \in CompareCalls \cup EncryptCalls \cup LoopCalls
  /\ callOut = NoCall

NextCalls ==
  \/ CallCompareFaces
  \/ CallEncrypt
  \/ CallDecrypt
  \/ CallBestMatch

SpecCalls == InitCalls /\ [][NextCalls]_vars


\* ====================================================================
\* Properties
\* ====================================================================
Types == {"check_in", "check_out"}
Days == 1..MaxDay

ApprovedRows(u, type, day) ==
  {i \in RecIds : records[i].user_id = u /\ records[i].type = type
                  /\ records[i].day = day /\ records[i].status = "approved"}

\* approved since its insert: no admin has touched it
CreatedApproved(i) ==
  records[i].status = "approved" /\ records[i].approved_by = "null"

\* C1: in every reachable state each user has, for each calendar day, at
\* most one approved check_in record and at most one approved check_out record.
C1_AtMostOneApprovedPerDay ==
  \A u \in Users, d \in Days, t \in Types : Cardinality(ApprovedRows(u, t, d)) <= 1

\* C2: of two concurrent check-ins of one user on one day that both pass all
\* checks, exactly one ends with an approved record: no two check_in rows of a
\* user and day are both approved by their own submission.
C2_ConcurrentCheckInsOneApproved ==
  \A i, j \in RecIds :
    (/\ i # j
     /\ records[i].type = "check_in" /\ records[j].type = "check_in"
     /\ records[i].user_id = records[j].user_id
     /\ records[i].day = records[j].day)
    => ~(CreatedApproved(i) /\ CreatedApproved(j))

\* C3: a check_in submitted while an approved check_in of the user exists for
\* today is answered AlreadyCheckedIn at the duplicate check, before any
\* detection, liveness or matching step, and adds no record and no audit entry.
C3_Step ==
  \A u \in Users :
    (\E i \in RecIds : /\ records[i].user_id = u /\ records[i].type = "check_in"
                       /\ records[i].day = today /\ records[i].status = "approved")
    => /\ \A r \in Slots :
            ~(/\ req[r].pc = "idle" /\ req'[r].pc # "idle"
              /\ req'[r].type = "check_in" /\ req'[r].user = u)
       /\ (/\ response'.to = "user" /\ response'.type = "check_in"
           /\ response'.user = u /\ response'.steps = <<"duplicate">>)
          => /\ response'.outcome = "AlreadyCheckedIn"
             /\ records' = records
             /\ audit' = audit
             /\ req' = req

C3_DuplicateCheckInRejected == [][C3_Step]_vars

C3_Witness ==
  /\ response.outcome = "AlreadyCheckedIn"
  /\ \E i \in RecIds : /\ records[i].user_id = response.user
                       /\ records[i].type = "check_in"
                       /\ records[i].day = today /\ records[i].status = "approved"

\* C4: a check_out submitted while the user has no approved check_in today is
\* answered NoCheckInYet and adds no record, also when a check_in of today
\* exists that is flagged or rejected.
C4_Step ==
  \A u \in Users :
    ~(\E i \in RecIds : /\ records[i].user_id = u /\ records[i].type = "check_in"
                        /\ records[i].day = today /\ records[i].status = "approved")
    => /\ \A r \in Slots :
            ~(/\ req[r].pc = "idle" /\ req'[r].pc # "idle"
              /\ req'[r].type = "check_out" /\ req'[r].user = u)
       /\ (/\ response'.to = "user" /\ response'.type = "check_out"
           /\ response'.user = u /\ response'.steps = <<"duplicate">>)
          => /\ response'.outcome = "NoCheckInYet"
             /\ records' = records
             /\ audit' = audit
             /\ req' = req

C4_CheckOutNeedsApprovedCheckIn == [][C4_Step]_vars

C4_Witness ==
  /\ response.outcome = "NoCheckInYet"
  /\ \E i \in RecIds : /\ records[i].user_id = response.user
                       /\ records[i].type = "check_in" /\ records[i].day = today
                       /\ records[i].status \in {"flagged", "rejected"}

\* C5: a check_out submitted while an approved check_out of the user exists
\* for today is answered AlreadyCheckedOut, and of two concurrent check_outs
\* exactly one is approved: no two check_out rows of a user and day are both
\* approved by their own submission.
C5_ConcurrentCheckOutsOneApproved ==
  \A i, j \in RecIds :
    (/\ i # j
     /\ records[i].type = "check_out" /\ records[j].type = "check_out"
     /\ records[i].user_id = records[j].user_id
     /\ records[i].day = records[j].day)
    => ~(CreatedApproved(i) /\ CreatedApproved(j))

\* C6: every approved check_out has an approved check_in of the same user on
\* the same day with an earlier timestamp.
C6_CheckOutHasApprovedCheckIn ==
  \A j \in RecIds :
    (records[j].type = "check_out" /\ records[j].status = "approved")
    => \E i \in RecIds : /\ records[i].type = "check_in"
                         /\ records[i].status = "approved"
                         /\ records[i].user_id = records[j].user_id
                         /\ records[i].day = records[j].day
                         /\ records[i].timestamp < records[j].timestamp

\* C7: the steps of a submission run in the order duplicate check, face
\* detection, liveness, extraction and match, geofence, persist; a step that
\* rejects ends the submission: no later step runs and no record is persisted
\* (after a failed liveness check nothing but the answer follows).
Rank(step) ==
  CASE step = "duplicate" -> 1
    [] step = "detect" -> 2
    [] step = "liveness" -> 3
    [] step = "match" -> 4
    [] step = "geofence" -> 5
    [] step = "persist" -> 6
    [] step = "audit" -> 7
    [] step = "emit" -> 8

StepsOf(steps) == {steps[i] : i \in 1..Len(steps)}

InOrder(steps) ==
  /\ \A i, j \in 1..Len(steps) : i < j => Rank(steps[i]) < Rank(steps[j])
  /\ Len(steps) > 0 => steps[1] = "duplicate"

Rejections ==
  {"AlreadyCheckedIn", "NoCheckInYet", "AlreadyCheckedOut", "NoFaceDetected",
   "LivenessFailed", "NoTemplate", "FaceNotRecognized"}

C7_Inv ==
  /\ \A r \in Slots :
       /\ InOrder(req[r].steps)
       /\ req[r].pc \in {"match", "geofence", "persist", "audit"}
            => req[r].passed /\ {"duplicate", "detect", "liveness"} \subseteq StepsOf(req[r].steps)
       /\ req[r].pc \in {"geofence", "persist", "audit"} => "match" \in StepsOf(req[r].steps)
       /\ req[r].pc = "audit" => req[r].steps[Len(req[r].steps)] = "persist"
  /\ \A i \in RecIds : records[i].liveness_passed
  /\ response.to = "user"
       => /\ InOrder(response.steps)
          /\ response.outcome \in Rejections
               => response.recId = 0 /\ "persist" \notin StepsOf(response.steps)
          /\ response.outcome = "LivenessFailed"
               => response.steps = <<"duplicate", "detect", "liveness">>

C7_Step ==
  (response'.to = "user" /\ response'.outcome \in Rejections)
    => /\ records' = records
       /\ audit' = audit
       /\ req'[response'.slot].pc = "idle"

C7_StepsInOrderShortCircuit == []C7_Inv /\ [][C7_Step]_vars

C7_Witness ==
  /\ response.outcome = "LivenessFailed"
  /\ response.steps = <<"duplicate", "detect", "liveness">>
  /\ \E i \in RecIds : records[i].type = "check_in" /\ records[i].status = "flagged"

\* C8: performAntiSpoofingChecks returns passed = isLive, and isLive holds
\* exactly when 0.4*liveness + 0.3*texture + 0.3*depth is strictly above 0.75
\* and the liveness, texture and depth flags are all true.
C8_LivenessAndGate ==
  (spoofOut.done /\ ~spoofIn.lv.error)
    => LET weighted == 4 * spoofIn.lv.confidence + 3 * spoofIn.tx.textureScore
                         + 3 * spoofIn.dp.depthScore
       IN /\ spoofOut.passed = spoofOut.isLive
          /\ spoofOut.overallScore = weighted
          /\ spoofOut.isLive <=> (/\ weighted > 750
                                  /\ spoofIn.lv.isLive
                                  /\ spoofIn.tx.isRealTexture
                                  /\ spoofIn.dp.hasDepth)

C8_Witness ==
  /\ spoofOut.done
  /\ spoofIn.lv.confidence = 95 /\ spoofIn.tx.textureScore = 95 /\ spoofIn.dp.depthScore = 95
  /\ spoofIn.lv.isLive /\ spoofIn.tx.isRealTexture /\ ~spoofIn.dp.hasDepth
  /\ spoofOut.overallScore > 750
  /\ ~spoofOut.passed

\* C9: when the liveness sub-model call errors, the submission fails closed:
\* it is never treated as passed, it goes no further, no record is persisted
\* and the caller is answered with a failure.
C9_Inv ==
  /\ \A r \in Slots : req[r].liveCall # "error"
  /\ response.liveCall = "error"
       => /\ response.outcome = "ServerError"
          /\ response.recId = 0
          /\ response.steps[Len(response.steps)] = "liveness"

C9_Step ==
  response'.liveCall = "error" => records' = records /\ audit' = audit

C10_Inv ==
  /\ \A i \in RecIds : records[i].confidence_score >= 80
  /\ \A r \in Slots : req[r].pc \in {"geofence", "persist", "audit"} => req[r].best >= 80
  /\ response.outcome = "FaceNotRecognized"
       => response.similarity < 80 /\ response.recId = 0

C10_Step ==
  response'.outcome = "FaceNotRecognized" => records' = records /\ audit' = audit

C10_ThresholdInclusive == []C10_Inv /\ [][C10_Step]_vars

C10_Witness ==
  /\ \E i \in RecIds : records[i].confidence_score = 80
  /\ response.outcome = "FaceNotRecognized"
  /\ response.similarity = 65

\* C11: the submitted face is compared against every enrolled template of the
\* user, primary or not: a submission whose face has similarity >= 0.8 to some
\* enrolled template is not turned away at the match step as unrecognized or
\* as lacking a template.
C11_AllTemplatesCompared ==
  (response.to = "user" /\ response.enrolledBest >= ConfidenceThreshold)
    => response.outcome \notin {"FaceNotRecognized", "NoTemplate"}

\* C12: a check-in or check-out of a user with zero enrolled templates is
\* answered NoEnrolledTemplate at the match step, a reason distinct from
\* FaceNotRecognized, and persists no record.
C12_NoEnrolledTemplate ==
  (/\ response.to = "user"
   /\ response.steps # <<>>
   /\ response.steps[Len(response.steps)] = "match"
   /\ Len(ExistingTemplates(response.user)) = 0)
    => response.outcome = "NoTemplate" /\ response.recId = 0

\* the site a record of user u was measured against: the schedule rows of u
\* that carry coordinates
SitesOf(u) ==
  {ws \in 1..Len(schedules) : schedules[ws].user_id = u /\ schedules[ws].is_active
                                /\ schedules[ws].hasCoords}

Outside(rec) ==
  \E ws \in SitesOf(rec.user_id) : rec.distance > 10 * schedules[ws].location_radius

\* C13: a check_in record as its submission created it is flagged exactly when
\* a site is configured and the distance is strictly greater than the radius,
\* and then its rejection_reason carries the rounded distance and the radius;
\* otherwise (distance <= radius, or no site) it is approved with
\* rejection_reason null.
C13_FlaggedIffOutsideRadius ==
  \A i \in RecIds :
    (records[i].type = "check_in" /\ records[i].approved_by = "null")
    => /\ records[i].status \in {"approved", "flagged"}
       /\ records[i].status = "flagged" <=> Outside(records[i])
       /\ records[i].status = "approved" => records[i].rejection_reason = NoReason
       /\ records[i].status = "flagged"
            => \E ws \in SitesOf(records[i].user_id) :
                 records[i].rejection_reason =
                   [kind |-> "location", dist |-> (records[i].distance + 5) \div 10,
                    radius |-> schedules[ws].location_radius, text |-> ""]

C13_Witness ==
  \E i, j \in RecIds :
    /\ records[i].type = "check_in" /\ records[i].status = "flagged"
    /\ records[i].distance = 1004 /\ records[i].rejection_reason.dist = 100
    /\ records[j].type = "check_in" /\ records[j].status = "approved"
    /\ records[j].distance = 1000 /\ SitesOf(records[j].user_id) # {}

\* C14: the geofence applies to check_out as to check_in: a check_out record
\* created from outside the radius of the user's site is flagged, not approved.
C14_CheckOutGeofenced ==
  \A i \in RecIds :
    (/\ records[i].type = "check_out" /\ records[i].approved_by = "null"
     /\ Outside(records[i]))
    => records[i].status = "flagged"

\* the update step of the review in slot a, and its audit step
Updates(a) == adm[a].pc = "update" /\ adm'[a].pc = "audit"
Audits(a) == adm[a].pc = "audit" /\ adm'[a].pc = "idle"

OthersUnchanged(id) ==
  /\ Len(records') = Len(records)
  /\ \A j \in RecIds : j # id => records'[j] = records[j]

\* C15: an admin approve of an existing record sets its status to approved,
\* its rejection_reason to null, approved_by to the admin and approved_at to
\* the time of the update, whatever its status was (flagged or rejected
\* included); an approve or reject of an id that does not exist changes no
\* record and writes no audit entry.
C15_Step ==
  /\ \A a \in AdminSlots :
       (Updates(a) /\ adm[a].kind = "approve")
       => /\ records'[adm[a].id] =
               [records[adm[a].id] EXCEPT !.status = "approved",
                                          !.rejection_reason = NoReason,
                                          !.approved_by = Admin,
                                          !.approved_at = today]
          /\ OthersUnchanged(adm[a].id)
  /\ (response'.to = "admin" /\ response'.type \in {"approve", "reject"}
       /\ response'.recId \notin RecIds)
       => /\ response'.outcome \in {"NotFound", "ValidationFailed"}
          /\ records' = records
          /\ audit' = audit
          /\ adm' = adm

C15_ApproveClearsReason == [][C15_Step]_vars

C15_Witness ==
  /\ \E i \in RecIds : /\ records[i].status = "approved"
                        /\ records[i].approved_by = Admin
                        /\ records[i].rejection_reason = NoReason
  /\ \E k \in 1..Len(audit) : /\ audit[k].action = "attendance_approved"
                               /\ audit[k].old_status = "rejected"

\* C16: an admin reject with a missing or empty reason fails validation and
\* leaves the records and the audit log unchanged; a reject with a non-empty
\* reason sets status rejected and rejection_reason to that reason, from any
\* prior status.
C16_Inv ==
  \A a \in AdminSlots : adm[a].kind = "reject" => adm[a].reason # ""

C16_Step ==
  /\ (response'.to = "admin" /\ response'.outcome = "ValidationFailed")
       => records' = records /\ audit' = audit /\ adm' = adm
  /\ \A a \in AdminSlots :
       (Updates(a) /\ adm[a].kind = "reject")
       => /\ records'[adm[a].id].status = "rejected"
          /\ records'[adm[a].id].rejection_reason = AdminReason(adm[a].reason)
          /\ records'[adm[a].id].rejection_reason.text # ""
          /\ OthersUnchanged(adm[a].id)

C16_RejectNeedsReason == []C16_Inv /\ [][C16_Step]_vars

C16_Witness ==
  /\ response.to = "admin" /\ response.outcome = "ValidationFailed"
  /\ \E i \in RecIds : /\ records[i].status = "rejected"
                        /\ records[i].rejection_reason = AdminReason("late")
  /\ \E k \in 1..Len(audit) : /\ audit[k].action = "attendance_rejected"
                               /\ audit[k].old_status = "approved"

\* C17: every successful admin approve or reject appends exactly one audit
\* entry whose old status is the status the record had immediately before
\* that request's update and whose new status is the status it has
\* immediately after it, also when two admin requests on one record interleave.
C17_Step ==
  \A a \in AdminSlots :
    /\ Updates(a)
         => /\ adm[a].old = records[adm[a].id].status
            /\ records'[adm[a].id].status
                 = (IF adm[a].kind = "approve" THEN "approved" ELSE "rejected")
    /\ Audits(a)
         => /\ Len(audit') = Len(audit) + 1
            /\ audit'[Len(audit')].resource_id = adm[a].id
            /\ audit'[Len(audit')].old_status = adm[a].old
            /\ audit'[Len(audit')].new_status
                 = (IF adm[a].kind = "approve" THEN "approved" ELSE "rejected")

C17_AuditOldAndNewStatus == [][C17_Step]_vars

\* C18: when the audit insert fails after the attendance record of a check-in
\* or check-out was inserted, the record stays persisted, the caller is still
\* answered with the accepted decision and the admin notification is still
\* emitted: every answer that follows a persisted record is an acceptance
\* that comes with its notification.
C18_AuditFailureKeepsDecision ==
  (response.to = "user" /\ response.recId # 0)
    => /\ response.recId \in RecIds
       /\ response.outcome = "Accepted"
       /\ Len(emitted) > 0
       /\ emitted[Len(emitted)].type = response.type
       /\ emitted[Len(emitted)].userId = response.user

PrimariesOf(u) ==
  {i \in 1..Len(templates) : /\ templates[i].live /\ templates[i].user_id = u
                              /\ templates[i].is_primary}

\* C19: in every reachable state, after any interleaving of registrations,
\* set-primary requests and deletions, each user has at most one face
\* template with is_primary = true.
C19_AtMostOnePrimary ==
  \A u \in Users : Cardinality(PrimariesOf(u)) <= 1

\* C20: an enrollment whose features have similarity strictly above 0.9 to an
\* existing template of the user is rejected and the rejection leaves the
\* store unchanged (no template inserted, no is_primary flag cleared, no audit
\* entry), also when isPrimary was requested; a registration goes on only
\* with every similarity at or below 0.9.
C20_Inv ==
  /\ \A t \in TplSlots : tpl[t].kind = "register" => tpl[t].closest <= 90
  /\ response.outcome = "SimilarTemplateExists" => response.similarity > 90

C20_Step ==
  response'.outcome = "SimilarTemplateExists"
    => templates' = templates /\ audit' = audit /\ tpl' = tpl

C20_NearDuplicateRejected == []C20_Inv /\ [][C20_Step]_vars

C20_Witness ==
  /\ response.outcome = "SimilarTemplateExists"
  /\ response.isPrimary
  /\ response.similarity = 95
  /\ PrimariesOf(response.user) # {}
  /\ \E t \in TplSlots : tpl[t].kind = "register" /\ tpl[t].closest = 90

\* C21: a user whose status is not active cannot authenticate: a login or a
\* token refresh that arrives while the status is inactive or suspended is
\* answered at once with 401 (400 for a malformed login body) and issues no
\* access or refresh token; a refresh answers with tokens only for an active
\* user.
C21_Inv ==
  (response.type = "refresh" /\ response.tokens # "none")
    => users[response.user] = "active"

C21_Step ==
  \A s \in AuthSlots, u \in Users :
    (/\ users[u] # "active"
     /\ auth[s].pc = "idle"
     /\ \/ auth'[s].pc # "idle" /\ auth'[s].kind = "login" /\ auth'[s].user = u
        \/ /\ response'.slot = s /\ response'.user = u
           /\ response'.type \in {"login", "refresh"})
    => /\ auth'[s].pc = "idle"
       /\ response'.slot = s
       /\ response'.code = 401 \/ (response'.code = 400 /\ ~response'.valid)
       /\ response'.tokens = "none"
       /\ tokens' = tokens

C21_InactiveUserRefused == []C21_Inv /\ [][C21_Step]_vars

C21_Witness ==
  /\ response.type = "login"
  /\ response.valid
  /\ response.code = 401
  /\ response.tokens = "none"
  /\ response.user \in tokens
  /\ users[response.user] = "suspended"

\* C22: a submission that was queued offline and synced later is checked
\* against, and recorded on, the day of its capture (the timestamp the queued
\* record carries), not the day it reaches the backend.
C22_RecordedOnCaptureDay ==
  (Delivered /\ response.outcome = "Accepted")
    => records[response.recId].day = Syncing.timestamp

\* C23: decryptFaceTemplate(encryptFaceTemplate(v)) equals v for every
\* feature vector v passed at enrollment (the typed array of the feature
\* tensor), and compareFaces takes the decrypted value.
C23_RoundTrip ==
  (callOut.fn = "decryptFaceTemplate" /\ callIn.a.kind = "Float32Array")
    => callOut.a = callIn.a /\ ~callOut.threw

\* C24: compareFaces signals an error when either feature vector has zero
\* norm and returns no result for such arguments.
C24_ZeroNormSignalled ==
  (/\ callOut.fn = "compareFaces"
   /\ callIn.b.kind \in TensorLike
   /\ \/ Dot(callIn.a.items, callIn.a.items) = 0
      \/ Dot(callIn.b.items, callIn.b.items) = 0)
    => callOut.threw

Secret == {"face_encoding", "faceEncoding", "features", "faceFeatures"}

\* C25: no answer and no audit row of template registration, listing,
\* deletion, set-primary, verification, check-in or check-out carries the
\* stored ciphertext (face_encoding) or the decrypted feature vector.
C25_NoTemplateDisclosed ==
  /\ response.data \cap Secret = {}
  /\ \A i \in 1..Len(audit) : audit[i].values \cap Secret = {}

C25_Witness ==
  /\ response.outcome = "Listed"
  /\ Len(audit) = 2
  /\ audit[1].action = "face_template_registered"
  /\ audit[2].action = "face_verification"

\* the effective schedule created last (0 when none is effective)
LatestSchedule(u, day) ==
  IF EffectiveSchedules(u, day) = {} THEN 0
  ELSE CHOOSE i \in EffectiveSchedules(u, day) :
         \A j \in EffectiveSchedules(u, day) : j <= i

\* C26: when several work schedules of a user are effective at a check-in,
\* the geofence is evaluated against the one created last, so that the store
\* and the submission determine the status.
C26_Step ==
  \A r \in Slots :
    (req[r].pc = "geofence" /\ req'[r].pc = "persist" /\ req'[r].distance # 0)
    => (req'[r].status = "approved")
         = LocationValid(LatestSchedule(req[r].user, today), req'[r].distance)

C26_LatestScheduleDecides == [][C26_Step]_vars

\* C27: the comparison loop is a max-reduction: the best similarity it
\* reports is the greatest similarity of the templates compared and the
\* template it selects is the first one with that similarity, also when every
\* similarity is zero or negative.
C27_MaxReduction ==
  callOut.fn = "bestMatch"
    => LET sims == callIn.a.items
           top == CHOOSE m \in {sims[i] : i \in 1..Len(sims)} :
                    \A i \in 1..Len(sims) : sims[i] <= m
           first == CHOOSE i \in 1..Len(sims) :
                      sims[i] = top /\ \A j \in 1..(i - 1) : sims[j] # top
       IN callOut.bestSimilarity = top /\ callOut.bestMatch = first

\* C28: the audit log is append-only: every step of every operation leaves
\* the rows already written as they are and in place.
C28_Step ==
  /\ Len(audit') >= Len(audit)
  /\ SubSeq(audit', 1, Len(audit)) = audit

C28_AuditAppendOnly == [][C28_Step]_vars

C28_Witness ==
  /\ Len(audit) = 2
  /\ audit[1].action = "attendance_check_in"
  /\ audit[2].action = "attendance_approved"

ReviewColumns == {"status", "rejection_reason", "approved_by", "approved_at"}

\* C29: attendance records are never deleted, and an existing record changes
\* only in the update step of an admin approve or reject of that record, which
\* changes none of its columns but status, rejection_reason, approved_by and
\* approved_at.
C29_Step ==
  /\ Len(records') >= Len(records)
  /\ \A i \in RecIds :
       records'[i] # records[i]
         => /\ \E a \in AdminSlots : Updates(a) /\ adm[a].id = i
            /\ \A c \in DOMAIN records[i] \ ReviewColumns :
                 records'[i][c] = records[i][c]

C29_RecordsFrame == [][C29_Step]_vars

C29_Witness ==
  /\ Len(records) = 2
  /\ records[1].status = "rejected"
  /\ records[1].approved_by = Admin
  /\ records[2].type = "check_in"

\* C30: the first template registered for a user is primary also when
\* isPrimary was not requested, and of two registrations that both read an
\* empty template list exactly one inserts a primary template.
C30_Inv ==
  \A t \in TplSlots, o \in TplSlots :
    (/\ t # o
     /\ tpl[t].kind = "register" /\ tpl[t].pc = "audit" /\ tpl[t].existing = 0
     /\ tpl[o].kind = "register" /\ tpl[o].pc = "audit" /\ tpl[o].existing = 0
     /\ tpl[t].user = tpl[o].user)
      => Cardinality({i \in {tpl[t].id, tpl[o].id} : templates[i].is_primary}) = 1

C30_Step ==
  \A t \in TplSlots :
    (tpl[t].pc = "insert" /\ tpl'[t].pc = "audit" /\ tpl[t].existing = 0)
      => templates'[Len(templates')].is_primary

C30_FirstTemplatePrimary == []C30_Inv /\ [][C30_Step]_vars

\* C31: a deletion removes exactly the template it was asked to delete and
\* leaves every other template as it is, so that after the primary template
\* is deleted no remaining template of the user is primary; a stored template
\* becomes primary only in the update of a set-primary request for it.
C31_Step ==
  /\ Len(templates') >= Len(templates)
  /\ \A i \in 1..Len(templates) :
       /\ (templates[i].live /\ ~templates'[i].live)
            => /\ \E t \in TplSlots :
                    tpl[t].kind = "delete" /\ tpl[t].pc = "del" /\ tpl[t].id = i
               /\ templates' = [templates EXCEPT ![i].live = FALSE]
               /\ PrimariesOf(templates[i].user_id)' = PrimariesOf(templates[i].user_id) \ {i}
       /\ (~templates[i].is_primary /\ templates'[i].is_primary)
            => \E t \in TplSlots :
                 tpl[t].kind = "primary" /\ tpl[t].pc = "set" /\ tpl[t].id = i

C31_DeleteLeavesOthers == [][C31_Step]_vars

C31_Witness ==
  /\ response.outcome = "Deleted"
  /\ \E i \in 1..Len(templates), j \in 1..Len(templates) :
       /\ ~templates[i].live /\ templates[i].is_primary /\ response.recId = i
       /\ templates[j].live /\ templates[j].user_id = templates[i].user_id
  /\ \A u \in Users : PrimariesOf(u) = {}

\* C32: a check-in or check-out that arrives while the user's status is
\* inactive or suspended is rejected at once and creates no attendance
\* record, whatever token it carries.
C32_Step ==
  \A r \in Slots, u \in Users :
    (/\ users[u] # "active"
     /\ req[r].pc = "idle"
     /\ \/ req'[r].pc # "idle" /\ req'[r].user = u
        \/ /\ response'.to = "user" /\ response'.slot = r /\ response'.user = u
           /\ response'.type \in Types)
    => /\ req'[r].pc = "idle"
       /\ response'.outcome = "Unauthorized"
       /\ records' = records
       /\ audit' = audit

C32_InactiveUserCannotSubmit == [][C32_Step]_vars

C32_Witness ==
  /\ response.outcome = "Unauthorized"
  /\ response.type = "check_out"
  /\ users[response.user] = "suspended"
  /\ \E i \in RecIds : records[i].user_id = response.user /\ records[i].type = "check_in"
  /\ \E i \in 1..Len(audit) : audit[i].action = "user_status_changed"

\* the audit rows of the submissions, in the order written
SubmissionAudits ==
  SelectSeq(audit, LAMBDA e : e.action \in {"attendance_check_in", "attendance_check_out"})

\* C33: an accepted submission (one answered with success) persists its
\* record first, then writes exactly one audit row referencing that record's
\* id, then emits exactly one attendance_update carrying the type, the user
\* and the status of the record as it was persisted; a submission that is not
\* accepted writes no audit row and emits nothing.
C33_Inv ==
  /\ Len(emitted) = Len(SubmissionAudits)
  /\ \A k \in 1..Len(SubmissionAudits) :
       LET e == SubmissionAudits[k] IN
       /\ e.resource_id \in RecIds
       /\ e.user_id = records[e.resource_id].user_id
       /\ e.action = IF records[e.resource_id].type = "check_in"
                       THEN "attendance_check_in" ELSE "attendance_check_out"
       /\ emitted[k].type = records[e.resource_id].type
       /\ emitted[k].userId = records[e.resource_id].user_id
       /\ \A j \in 1..Len(SubmissionAudits) :
            SubmissionAudits[j].resource_id = e.resource_id => j = k
  /\ \A r \in Slots :
       req[r].pc = "audit"
         => /\ req[r].recId \in RecIds
            /\ records[req[r].recId].approved_by = "null"
                 => records[req[r].recId].status = req[r].status
            /\ \A k \in 1..Len(SubmissionAudits) :
                 SubmissionAudits[k].resource_id # req[r].recId
  /\ (response.to = "user" /\ response.outcome = "Accepted")
       => /\ Len(response.steps) >= 3
          /\ SubSeq(response.steps, Len(response.steps) - 2, Len(response.steps))
               = <<"persist", "audit", "emit">>
          /\ \E k \in 1..Len(SubmissionAudits) :
               SubmissionAudits[k].resource_id = response.recId

C33_Step ==
  /\ (SubmissionAudits' # SubmissionAudits \/ emitted' # emitted)
       => \E r \in Slots :
            /\ req[r].pc = "audit"
            /\ SubmissionAudits' = Append(SubmissionAudits, audit'[Len(audit')])
            /\ audit'[Len(audit')].resource_id = req[r].recId
            /\ emitted' = Append(emitted, [type |-> req[r].type, userId |-> req[r].user,
                                           status |-> req[r].status])
            /\ response'.slot = r /\ response'.outcome = "Accepted"
  /\ (response'.to = "user" /\ response'.outcome # "Accepted")
       => audit' = audit /\ emitted' = emitted

C33_PersistAuditEmit == []C33_Inv /\ [][C33_Step]_vars

C33_Witness ==
  /\ response.to = "user" /\ response.outcome = "Accepted" /\ response.type = "check_out"
  /\ Len(emitted) = 2
  /\ emitted[1].type = "check_in" /\ emitted[2].type = "check_out"
  /\ emitted[1].status = "flagged"
  /\ Len(records) = 2 /\ records[1].status = "approved"

\* the approved check-ins of a user that are of the current day
CheckedInToday(u) ==
  {i \in RecIds : /\ records[i].user_id = u /\ records[i].type = "check_in"
                  /\ records[i].day = today /\ records[i].status = "approved"}

\* C34: the duplicate check looks at the current calendar day only: a
\* check_in is answered AlreadyCheckedIn only when an approved check_in of
\* today exists, whatever the earlier days hold, and a check_out goes past the
\* duplicate check only when an approved check_in of today exists and is
\* answered NoCheckInYet otherwise.
C34_Step ==
  \A u \in Users :
    /\ (/\ response'.to = "user" /\ response'.user = u
        /\ response'.outcome = "AlreadyCheckedIn")
         => CheckedInToday(u) # {}
    /\ (\E r \in Slots : /\ req[r].pc = "idle" /\ req'[r].pc # "idle"
                          /\ req'[r].user = u /\ req'[r].type = "check_out")
         => CheckedInToday(u) # {}
    /\ (/\ response'.to = "user" /\ response'.user = u
        /\ response'.type = "check_out" /\ response'.steps = <<"duplicate">>
        /\ CheckedInToday(u) = {})
         => response'.outcome = "NoCheckInYet" /\ records' = records
    /\ \A r \in Slots :
         (/\ req[r].pc = "idle" /\ req'[r].pc # "idle"
          /\ req'[r].user = u /\ req'[r].type = "check_in")
           => CheckedInToday(u) = {} /\ req'[r].day = today

C34_DuplicateCheckPerDay == [][C34_Step]_vars

C34_Witness ==
  /\ today = 2
  /\ response.outcome = "NoCheckInYet"
  /\ Len(records) = 2
  /\ records[1].user_id = response.user /\ records[1].type = "check_in"
  /\ records[1].day = 1 /\ records[1].status = "approved"
  /\ records[2].user_id = response.user /\ records[2].type = "check_in"
  /\ records[2].day = 2 /\ records[2].status = "flagged"

\* C35: a check-in that reaches its template query while a set-primary request
\* of the same user is between its two updates, and whose face matches an
\* enrolled template, is not answered as lacking a template.
C35_RecognizableDuringSetPrimary ==
  ~(/\ response.to = "user"
    /\ response.type = "check_in"
    /\ response.outcome = "NoTemplate"
    /\ response.enrolledBest >= ConfidenceThreshold
    /\ \E t \in TplSlots :
         /\ tpl[t].kind = "primary" /\ tpl[t].pc = "set"
         /\ tpl[t].user = response.user
         /\ templates[tpl[t].id].live)

\* C36: a request answered with 401 settles after at most one token refresh
\* and one retry, and a 401 answer to the refresh post itself ends the request
\* (logout, rejection) instead of starting another refresh.
C36_Inv == client.refreshes <= 1 /\ client.retries <= 1

C36_Step ==
  (/\ client.pc = "sent" /\ client.depth >= 2
   /\ client' # client /\ client'.status = 401)
    => /\ client'.pc = "settled" /\ client'.outcome = "rejected"
       /\ ~client'.token /\ ~client'.refreshToken

C36_UnauthorizedSettles ==
  /\ []C36_Inv
  /\ [][C36_Step]_vars
  /\ (client.pc = "sent") ~> (client.pc = "settled")

\* the ids of the records of a queue
IdsOf(queue) == {queue[k].id : k \in 1..Len(queue)}

\* C37: when syncOfflineRecords completes, every record of the queue it read
\* at its start was submitted exactly once and in order, a failure stopping
\* none of the following submissions; the queue holds those of them whose
\* submission did not succeed, in their original order, followed by the
\* records added meanwhile; isLoading is false.
C37_Step ==
  /\ (sync.pc # "idle" /\ sync'.pc = "idle")
       => LET snapshot == sync.queue
              results == sync'.results
              failed == {results[k].id : k \in {j \in 1..Len(results) : ~results[j].success}}
          IN /\ Len(results) = Len(snapshot)
             /\ \A k \in 1..Len(snapshot) : results[k].id = snapshot[k].id
             /\ SelectSeq(offlineRecords', LAMBDA rec : rec.id \in IdsOf(snapshot))
                  = SelectSeq(snapshot, LAMBDA rec : rec.id \in failed)
             /\ ~sync'.isLoading
  /\ sync.pc # "idle"
       => /\ \A k \in 1..Len(offlineRecords) :
               offlineRecords[k].id \notin IdsOf(sync.queue)
                 => \E j \in 1..Len(offlineRecords') : offlineRecords'[j] = offlineRecords[k]
          /\ \A k \in 1..Len(offlineRecords') - 1 :
               offlineRecords'[k].id < offlineRecords'[k + 1].id

C37_SyncCompletes == [][C37_Step]_vars

C37_Witness ==
  /\ sync.pc = "idle"
  /\ Len(sync.results) = 2
  /\ sync.results[1].success /\ ~sync.results[2].success
  /\ Len(offlineRecords) = 2
  /\ offlineRecords[1].id = sync.results[2].id
  /\ offlineRecords[2].id = 3
  /\ ~sync.isLoading

\* C38: the client queues a submission only when it could not be delivered:
\* a submission the server answered with a decision error is not added to
\* the offline queue.
C38_Step ==
  (ScreenDelivered /\ response.outcome \in Rejections)
    => offlineRecords' = offlineRecords

C38_OnlyUndeliveredQueued == [][C38_Step]_vars

\* C39: every attendance record has liveness_passed = true; a record created
\* by a submission has status approved or flagged, never pending or rejected;
\* a record becomes rejected only by the update of an admin reject.
C39_Inv ==
  \A i \in RecIds :
    /\ records[i].liveness_passed
    /\ records[i].status \in {"approved", "flagged", "rejected"}

C39_Step ==
  /\ \A i \in (1..Len(records')) \ RecIds :
       records'[i].status \in {"approved", "flagged"}
  /\ \A i \in RecIds :
       (records[i].status # "rejected" /\ records'[i].status = "rejected")
         => \E a \in AdminSlots :
              /\ adm[a].pc = "update" /\ adm[a].kind = "reject" /\ adm[a].id = i
              /\ adm'[a].pc = "audit"

C39_LiveAndNeverPending == []C39_Inv /\ [][C39_Step]_vars

C39_Witness ==
  /\ Len(records) = 2
  /\ records[1].status = "rejected" /\ records[1].liveness_passed
  /\ records[1].approved_by = Admin
  /\ records[2].status = "flagged" /\ records[2].liveness_passed
  /\ records[2].approved_by = "null"

====
